---- MODULE Spec2Model ----
(***************************************************************************)
(* A model of PrismGuard (GuardianBridge): the sample store, the smart and *)
(* basic moderation stages with the request pipeline in front of them, the *)
(* training lifecycle (trainer scripts, lock files, scheduler), dialect    *)
(* detection, the request converters and the stream transcoder.            *)
(*                                                                         *)
(* Each subsystem has its own specification over the shared variables; a   *)
(* specification leaves the variables of the other subsystems unchanged.   *)
(***************************************************************************)
EXTENDS Integers, Sequences, FiniteSets, TLC

VARIABLES
    db,        \* the key-value store history.rocks of one profile
    sqlite,    \* the legacy SQLite file history.db: NoFile or its rows
    bak,       \* history.db.bak: NoFile or the rows archived there
    lastOp,    \* the last storage call and what it was given
    call,      \* the last smart_moderation call: what it read and what it did
    dbBefore,  \* the store as that call found it
    req,       \* the request proxy_entry is handling, or the last one it answered
    lock,      \* per profile, the file .train.lock
    glock,     \* .global_train.lock: the pid holding its flock and the pid it names
    statusFile,\* per profile, the file .train_status.json
    models,    \* per model path, the live model file
    procs,     \* the trainer processes, one per slot
    sched,     \* the scheduler task of the serving process
    nextPid,   \* the pid the next trainer process gets
    tr,        \* the stream transformer of one upstream response, with what it was fed
    det        \* the last call into transform/formats: its arguments and what it returned

storeVars == <<db, sqlite, bak, lastOp>>

smartVars == <<call, dbBefore>>

proxyVars == <<req>>

trainVars == <<lock, glock, statusFile, models, procs, sched, nextPid>>

streamVars == <<tr>>

detectVars == <<det>>

vars == <<db, sqlite, bak, lastOp, call, dbBefore, req,
          lock, glock, statusFile, models, procs, sched, nextPid, tr, det>>

\* A file that does not exist, and a file holding a table.
NoFile == [present |-> FALSE, rows |-> [k \in {} |-> 0]]

FileOf(table) == [present |-> TRUE, rows |-> table]

None == "None"

(***************************************************************************)
(* Generic helpers.                                                        *)
(***************************************************************************)
Max2(a, b) == IF a >= b THEN a ELSE b

SetMax(S) == CHOOSE m \in S : \A n \in S : n <= m

\* The ids of S in descending order: the order of every `sid -= 1` scan.
RECURSIVE Descending(_)
Descending(S) ==
    IF S = {} THEN <<>> ELSE <<SetMax(S)>> \o Descending(S \ {SetMax(S)})

Range(s) == {s[i] : i \in DOMAIN s}

\* Every ordering of every k-element subset of S: random.sample(list(S), k).
Samplings(S, k) ==
    {s \in [1..k -> S] : \A i, j \in 1..k : i # j => s[i] # s[j]}

(***************************************************************************)
(* Sample store (ai_proxy/moderation/smart/storage.py).                    *)
(*                                                                         *)
(* db.exists     the directory history.rocks exists                        *)
(* db.samples    the keys sample:<id>, as a function id -> record          *)
(* db.latest     the keys text_latest:<hash>, as a function hash -> id     *)
(* db.meta       the keys meta:next_id, meta:count, meta:count:0/1         *)
(* The store keeps numbers as decimal strings (str / int); the model keeps *)
(* the integers.  created_at is a wall-clock stamp no operation reads back *)
(* and is left out.                                                        *)
(***************************************************************************)
StoreTexts == {"a", "b"}

Categories == {None, "x"}

\* md5 of the text, hex digest; distinct texts of the model hash apart.
_hash_text(text) == "h_" \o text

EmptyFn == [k \in {} |-> 0]

NoDb == [exists |-> FALSE, samples |-> EmptyFn, latest |-> EmptyFn, meta |-> EmptyFn]

MetaGet(d, key, default) == IF key \in DOMAIN d.meta THEN d.meta[key] ELSE default

_next_id(d) == MetaGet(d, "next_id", 1)

_get_count(d) == MetaGet(d, "count", 0)

_get_label_count(d, label) ==
    MetaGet(d, IF label = 0 THEN "count:0" ELSE "count:1", 0)

MetaPut(d, kvs) == [d EXCEPT !.meta = kvs @@ d.meta]

_set_counts(d, total, count_0, count_1) ==
    MetaPut(d, [k \in {"count", "count:0", "count:1"} |->
                   IF k = "count" THEN total
                   ELSE IF k = "count:0" THEN count_0 ELSE count_1])

_init_meta(d) ==
    [d EXCEPT !.exists = TRUE,
              !.meta = d.meta @@ [k \in {"next_id", "count", "count:0", "count:1"} |->
                                     IF k = "next_id" THEN 1 ELSE 0]]

SampleRec(sid, text, label, category) ==
    [id |-> sid, text |-> text, label |-> label, category |-> category,
     text_hash |-> _hash_text(text)]

PutSample(d, s) ==
    [d EXCEPT !.samples = (s.id :> s) @@ d.samples,
              !.latest = (s.text_hash :> s.id) @@ d.latest]

set_next_id(d, n) == MetaPut(d, "next_id" :> n)

\* save_sample that leaves the id counter where it found it.
save_sample_keeps_next_id(d, text, label, category) ==
    LET sid == _next_id(d)
        d1 == PutSample(d, SampleRec(sid, text, label, category))
        count_0 == _get_label_count(d1, 0) + (IF label = 0 THEN 1 ELSE 0)
        count_1 == _get_label_count(d1, 1) + (IF label = 0 THEN 0 ELSE 1)
        d2 == _set_counts(d1, count_0 + count_1, count_0, count_1)
    IN  set_next_id(d2, sid)

save_sample(d, text, label, category) ==
    LET sid == _next_id(d)
        d1 == PutSample(d, SampleRec(sid, text, label, category))
        count_0 == _get_label_count(d1, 0) + (IF label = 0 THEN 1 ELSE 0)
        count_1 == _get_label_count(d1, 1) + (IF label = 0 THEN 0 ELSE 1)
        d2 == _set_counts(d1, count_0 + count_1, count_0, count_1)
    IN  set_next_id(d2, sid + 1)

\* Ids below next_id that hold a sample, newest first.
StoredIds(d) == Descending({i \in DOMAIN d.samples : i > 0 /\ i < _next_id(d)})

\* A deletion that leaves the text index as it finds it.
_refresh_text_latest_keeps_pointer(d, text_hash, deleted_id) == d

\* _refresh_text_latest_after_delete: the index entry of the deleted sample's hash is
\* set to the newest stored sample with that hash, or deleted when there is none.
_refresh_text_latest_after_delete(d, text_hash, deleted_id) ==
    IF text_hash \notin DOMAIN d.latest THEN d
    ELSE IF d.latest[text_hash] # deleted_id THEN d
    ELSE LET same == {i \in Range(StoredIds(d)) : d.samples[i].text_hash = text_hash}
         IN  IF same # {}
             THEN [d EXCEPT !.latest[text_hash] = SetMax(same)]
             ELSE [d EXCEPT !.latest =
                      [h \in DOMAIN d.latest \ {text_hash} |-> d.latest[h]]]

DecClamped(n) == Max2(0, n - 1)

\* One turn of the `for sid in to_delete` loop; c carries total, count_0, count_1.
DeleteOne(dc, sid) ==
    LET d == dc.d IN
    IF sid \notin DOMAIN d.samples THEN dc
    ELSE LET s == d.samples[sid]
             d1 == [d EXCEPT !.samples = [i \in DOMAIN d.samples \ {sid} |-> d.samples[i]]]
         IN  [d |-> _refresh_text_latest_after_delete(d1, s.text_hash, sid),
              total |-> DecClamped(dc.total),
              count_0 |-> IF s.label = 0 THEN DecClamped(dc.count_0) ELSE dc.count_0,
              count_1 |-> IF s.label = 0 THEN dc.count_1 ELSE DecClamped(dc.count_1)]

RECURSIVE DeleteAll(_, _)
DeleteAll(dc, to_delete) ==
    IF to_delete = <<>> THEN dc
    ELSE DeleteAll(DeleteOne(dc, Head(to_delete)), Tail(to_delete))

Candidates(d, label) == SelectSeq(StoredIds(d), LAMBDA i : d.samples[i].label = label)

\* The lists random.sample may return, or the candidates themselves.
DeleteChoices(d, label, count) ==
    LET candidates == Candidates(d, label) IN
    IF count <= 0 \/ candidates = <<>> THEN {<<>>}
    ELSE IF Len(candidates) <= count THEN {candidates}
    ELSE Samplings(Range(candidates), count)

\* _delete_random_samples that afterwards sets the id counter to the greatest stored id
\* plus one.
_delete_random_samples_resets_next_id(d, label, to_delete) ==
    IF to_delete = <<>> THEN d
    ELSE LET r == DeleteAll([d |-> d, total |-> _get_count(d),
                             count_0 |-> _get_label_count(d, 0),
                             count_1 |-> _get_label_count(d, 1)], to_delete)
         IN  set_next_id(_set_counts(r.d, r.total, r.count_0, r.count_1),
                         SetMax(DOMAIN r.d.samples \cup {0}) + 1)

_delete_random_samples(d, label, to_delete) ==
    IF to_delete = <<>> THEN d
    ELSE LET r == DeleteAll([d |-> d, total |-> _get_count(d),
                             count_0 |-> _get_label_count(d, 0),
                             count_1 |-> _get_label_count(d, 1)], to_delete)
         IN  _set_counts(r.d, r.total, r.count_0, r.count_1)

\* cleanup_excess_samples whose target for a label is max_items, not half of it.
cleanup_excess_samples_whole_target(d, max_items) ==
    IF _get_count(d) <= max_items THEN {d}
    ELSE LET pass_count == _get_label_count(d, 0)
             violation_count == _get_label_count(d, 1)
             target_per_label == max_items
             after0 == IF pass_count > target_per_label
                       THEN {_delete_random_samples(d, 0, td) :
                                td \in DeleteChoices(d, 0, pass_count - target_per_label)}
                       ELSE {d}
         IN  UNION {IF violation_count > target_per_label
                    THEN {_delete_random_samples(d0, 1, td) :
                             td \in DeleteChoices(d0, 1, violation_count - target_per_label)}
                    ELSE {d0} : d0 \in after0}

\* The stores cleanup_excess_samples(max_items) may leave.
cleanup_excess_samples(d, max_items) ==
    IF _get_count(d) <= max_items THEN {d}
    ELSE LET pass_count == _get_label_count(d, 0)
             violation_count == _get_label_count(d, 1)
             target_per_label == max_items \div 2
             after0 == IF pass_count > target_per_label
                       THEN {_delete_random_samples(d, 0, td) :
                                td \in DeleteChoices(d, 0, pass_count - target_per_label)}
                       ELSE {d}
         IN  UNION {IF violation_count > target_per_label
                    THEN {_delete_random_samples(d0, 1, td) :
                             td \in DeleteChoices(d0, 1, violation_count - target_per_label)}
                    ELSE {d0} : d0 \in after0}

(***************************************************************************)
(* Migration of the legacy SQLite file.  A legacy table is a function from *)
(* row ids to rows [text, label, category]; text and label may be NULL.    *)
(***************************************************************************)
LegacyRow(text, label, category) == [text |-> text, label |-> label, category |-> category]

\* A label is {} for NULL, else the one-element set of its value.
LegacyTables ==
    { EmptyFn,
      (1 :> LegacyRow("a", {0}, None)),
      (1 :> LegacyRow("a", {1}, "x")) @@ (3 :> LegacyRow("b", {}, None)),
      (2 :> LegacyRow(None, {1}, None)) @@ (3 :> LegacyRow("a", {0}, "x")) }

\* `text or ""` and `int(label or 0)` of the row loop.
RowText(row) == IF row.text = None THEN "" ELSE row.text

RowLabel(row) == IF row.label = {} THEN 0 ELSE CHOOSE l \in row.label : TRUE

RECURSIVE MigrateRows(_, _, _)
MigrateRows(acc, table, ids) ==
    IF ids = <<>> THEN acc
    ELSE LET rid == Head(ids)
             s == SampleRec(rid, RowText(table[rid]), RowLabel(table[rid]),
                            table[rid].category)
         IN  MigrateRows([d |-> PutSample(acc.d, s),
                          next_id |-> Max2(acc.next_id, rid + 1),
                          count_0 |-> acc.count_0 + (IF s.label = 0 THEN 1 ELSE 0),
                          count_1 |-> acc.count_1 + (IF s.label = 0 THEN 0 ELSE 1)],
                         table, Tail(ids))

Ascending(S) == LET desc == Descending(S) IN [i \in 1..Len(desc) |-> desc[Len(desc) + 1 - i]]

\* The migration with meta:next_id set to the number of rows plus one.
MigratedDb_next_id_from_count(table) ==
    LET r == MigrateRows([d |-> [NoDb EXCEPT !.exists = TRUE],
                          next_id |-> 1, count_0 |-> 0, count_1 |-> 0],
                         table, Ascending(DOMAIN table))
    IN  set_next_id(_set_counts(r.d, r.count_0 + r.count_1, r.count_0, r.count_1),
                    r.count_0 + r.count_1 + 1)

MigratedDb(table) ==
    LET r == MigrateRows([d |-> [NoDb EXCEPT !.exists = TRUE],
                          next_id |-> 1, count_0 |-> 0, count_1 |-> 0],
                         table, Ascending(DOMAIN table))
    IN  set_next_id(_set_counts(r.d, r.count_0 + r.count_1, r.count_0, r.count_1),
                    r.next_id)

\* SampleStorage.__init__: migrate if needed, open the store, fill in the meta keys.
\* Yields the store and the two legacy files.
_migrate_sqlite_if_needed(d, sq, bk) ==
    IF ~sq.present THEN [db |-> d, sqlite |-> sq, bak |-> bk]
    ELSE IF d.exists THEN [db |-> d, sqlite |-> NoFile, bak |-> sq]
    ELSE [db |-> MigratedDb(sq.rows), sqlite |-> NoFile, bak |-> sq]

SampleStorage(d, sq, bk) ==
    LET m == _migrate_sqlite_if_needed(d, sq, bk)
    IN  [m EXCEPT !.db = _init_meta(m.db)]

MaxId == 3

MaxItemsChoices == {0, 1, 2, 3}

NoCall == [route |-> "none", stage |-> "returned"]

NoRequest == [stage |-> "idle"]

\* No upstream response is being streamed.
NoTransformer == [stage |-> "none"]

\* No detect_and_parse call was made.
NoDetection == [stage |-> "none"]

\* The profile directories under configs/mod_profiles, in listing order.
ProfileNames == <<"p1", "p2">>

\* profile.json: local_model_type of each profile.
local_model_type == [p \in Range(ProfileNames) |-> IF p = "p1" THEN "fasttext" ELSE "hashlinear"]

\* The model files trainers write: the file of the profile's own type, and the
\* bag-of-words file the scheduler's trainer writes for a profile that is not fastText.
ModelPaths == {<<"p1", "fasttext">>, <<"p2", "bow">>, <<"p2", "hashlinear">>}

Slots == {1, 2}

\* .train.lock.  pid, stamped (created_at > 0), old (its age is over stale_seconds)
\* and type are what the payload says; creator is the process that created the file.
NoLock ==
    [present |-> FALSE, pid |-> 0, stamped |-> FALSE, old |-> FALSE, type |-> "",
     creator |-> 0]

NoStatus == [status |-> "none", fresh |-> FALSE]

\* .global_train.lock: holder is the pid whose flock it is, 0 when nobody's; payload is
\* the pid written in the file, 0 when the file is empty or missing.
NoGlobalLock == [holder |-> 0, payload |-> 0]

\* A trainer process: where it is in main(), its exit code, whether its lock attempt
\* succeeded or failed, the live model file as its validation found it and the status
\* it recorded last.
NoProc ==
    [pc |-> "none", pid |-> 0, ppid |-> 0, kind |-> "none", profile |-> "none", rc |-> -1,
     acquired |-> FALSE, lock_failed |-> FALSE, validated |-> "none", recorded |-> "none"]

\* The pid of the serving process, whose scheduler task spawns trainers.
ServerPid == 1

SchedulerSleeping == [pc |-> "sleeping", todo |-> <<>>, child |-> 0]

\* No trainer has run yet and the scheduler sleeps.
TrainingIdle ==
    /\ lock = [p \in Range(ProfileNames) |-> NoLock]
    /\ glock = NoGlobalLock
    /\ statusFile = [p \in Range(ProfileNames) |-> NoStatus]
    /\ models = [m \in ModelPaths |-> "absent"]
    /\ procs = [s \in Slots |-> NoProc]
    /\ sched = SchedulerSleeping
    /\ nextPid = ServerPid + 1

StoreInit ==
    /\ db = NoDb
    /\ sqlite \in {NoFile} \cup {FileOf(t) : t \in LegacyTables}
    /\ bak = NoFile
    /\ lastOp = [op |-> "none"]
    /\ call = NoCall /\ dbBefore = NoDb
    /\ req = NoRequest
    /\ tr = NoTransformer
    /\ det = NoDetection
    /\ TrainingIdle

\* A caller constructs SampleStorage(path) and asks for a count (scheduler.should_train).
OpenStorage ==
    LET o == SampleStorage(db, sqlite, bak) IN
    /\ db' = o.db /\ sqlite' = o.sqlite /\ bak' = o.bak
    /\ lastOp' = [op |-> "open"]
    /\ UNCHANGED <<smartVars, proxyVars, trainVars, streamVars, detectVars>>

\* A caller constructs SampleStorage(path) and saves a sample (ai.run_ai_moderation_and_log).
SaveSampleCall ==
    \E text \in StoreTexts, label \in {0, 1}, category \in Categories :
        LET o == SampleStorage(db, sqlite, bak) IN
        /\ _next_id(o.db) <= MaxId
        /\ db' = save_sample(o.db, text, label, category)
        /\ sqlite' = o.sqlite /\ bak' = o.bak
        /\ lastOp' = [op |-> "save", text |-> text, label |-> label, category |-> category]
        /\ UNCHANGED <<smartVars, proxyVars, trainVars, streamVars, detectVars>>

\* A trainer constructs SampleStorage(path) and trims the store (train_hashlinear_model).
CleanupCall ==
    \E max_items \in MaxItemsChoices :
        LET o == SampleStorage(db, sqlite, bak) IN
        \E d2 \in cleanup_excess_samples(o.db, max_items) :
            /\ db' = d2
            /\ sqlite' = o.sqlite /\ bak' = o.bak
            /\ lastOp' = [op |-> "cleanup", max_items |-> max_items]
            /\ UNCHANGED <<smartVars, proxyVars, trainVars, streamVars, detectVars>>

StoreNext == OpenStorage \/ SaveSampleCall \/ CleanupCall

SpecStore == StoreInit /\ [][StoreNext]_vars

(***************************************************************************)
(* Claim about the sample store, checked under SpecStore.                  *)
(***************************************************************************)
\* C10: after any sequence of migration, save_sample and cleanup the store's counters
\* agree (meta:count = meta:count:0 + meta:count:1) and meta:next_id is greater than
\* every stored sample id.
C10_CountersConsistent ==
    db.exists =>
        /\ _get_count(db) = _get_label_count(db, 0) + _get_label_count(db, 1)
        /\ \A sid \in DOMAIN db.samples : _next_id(db) > sid

\* C10 witness: a store that was migrated from SQLite, then grew by a save, and has
\* just been trimmed by a cleanup that deleted samples of it while keeping others.
C10_Witness ==
    /\ lastOp.op = "cleanup" /\ bak.present /\ db.exists
    /\ \E sid \in DOMAIN db.samples : sid \notin DOMAIN bak.rows
    /\ \E sid \in DOMAIN bak.rows : sid \notin DOMAIN db.samples
    /\ _get_count(db) = Cardinality(DOMAIN db.samples)

\* The sample stored under the id of a legacy row has the row's text and label; a NULL
\* text reads as the empty string and a NULL label as 0.
SameTextAndLabel(sample, row) ==
    /\ sample.text = (IF row.text = None THEN "" ELSE row.text)
    /\ {sample.label} = (IF row.label = {} THEN {0} ELSE row.label)

Probs == {0, 50, 100}

Seeds == {0, 1}

Rates == {0, 50, 100}

SmartTexts == {"a"}

\* What the adjudicator's endpoint does with one call.
\*   raise    the call raises (timeout, connection, HTTP error)
\*   text     a reply with no "{...}" in it; word: it holds one of the violation words
\*   badjson  a reply whose "{...}" slice json.loads rejects
\*   json     a reply whose slice parses; violation is "true", "false" or "absent"
Replies ==
    {[kind |-> "raise", word |-> FALSE, violation |-> "absent", category |-> None],
     [kind |-> "badjson", word |-> FALSE, violation |-> "absent", category |-> None]}
    \cup {[kind |-> "text", word |-> w, violation |-> "absent", category |-> None] :
             w \in BOOLEAN}
    \cup {[kind |-> "json", word |-> FALSE, violation |-> v, category |-> c] :
             v \in {"true", "false", "absent"}, c \in Categories}

NoReply == [kind |-> "unread", word |-> FALSE, violation |-> "absent", category |-> None]

NoResult == [violation |-> FALSE, category |-> None, source |-> "none", confidence |-> -1]

\* ai_moderate: raised, or the ModerationResult it returns.
ai_moderate(api_key, reply) ==
    IF ~api_key THEN [raised |-> TRUE, result |-> NoResult]
    ELSE IF reply.kind \in {"raise", "badjson"}
    THEN [raised |-> FALSE,
          result |-> [violation |-> FALSE, category |-> "error", source |-> "ai",
                      confidence |-> -1]]
    ELSE IF reply.kind = "text"
    THEN [raised |-> FALSE,
          result |-> [violation |-> reply.word, category |-> "unknown", source |-> "ai",
                      confidence |-> -1]]
    ELSE [raised |-> FALSE,
          result |-> [violation |-> (reply.violation = "true"),
                      category |-> reply.category, source |-> "ai", confidence |-> -1]]

\* run_ai_moderation_and_log on the files fs = [db, sqlite, bak].
run_ai_moderation_and_log(fs, text, api_key, reply) ==
    LET r == ai_moderate(api_key, reply) IN
    IF r.raised THEN [raised |-> TRUE, result |-> NoResult, fs |-> fs]
    ELSE LET o == SampleStorage(fs.db, fs.sqlite, fs.bak)
             label == IF r.result.violation THEN 1 ELSE 0
         IN  [raised |-> FALSE, result |-> r.result,
              fs |-> [o EXCEPT !.db = save_sample(o.db, text, label, r.result.category)]]

\* random.seed(seed); random.random(), in percent.
FirstDraw(seed) == IF seed = 0 THEN 84 ELSE 13

LocalResult(violation, p) ==
    [violation |-> violation, category |-> None, source |-> "bow_model", confidence |-> p]

\* Routing that lets the local model decide when p equals a threshold.
SmartRoute_closed_thresholds(enabled, profile, model, p) ==
    IF ~enabled THEN "disabled"
    ELSE IF FirstDraw(profile.seed) < profile.rate THEN "sampled"
    ELSE IF model = "missing" THEN "no_model"
    ELSE IF model = "raises" THEN "predict_failed"
    ELSE IF p <= profile.low THEN "local_pass"
    ELSE IF p >= profile.high THEN "local_reject"
    ELSE "uncertain"

\* smart_moderation up to its first await: the path the call takes.
\*   profile: [seed, rate, low, high]; model: "missing" (bow_model_exists is false),
\*   "raises" (bow_predict_proba raises) or "ok" with probability p.
SmartRoute(enabled, profile, model, p) ==
    IF ~enabled THEN "disabled"
    ELSE IF FirstDraw(profile.seed) < profile.rate THEN "sampled"
    ELSE IF model = "missing" THEN "no_model"
    ELSE IF model = "raises" THEN "predict_failed"
    ELSE IF p < profile.low THEN "local_pass"
    ELSE IF p > profile.high THEN "local_reject"
    ELSE "uncertain"

AiRoutes == {"sampled", "uncertain", "no_model", "predict_failed"}

\* What smart_moderation returns on the paths that end without the adjudicator.
LocalOutcome(route, p) ==
    IF route = "local_pass" THEN [outcome |-> "pass", result |-> LocalResult(FALSE, p)]
    ELSE IF route = "local_reject" THEN [outcome |-> "reject", result |-> LocalResult(TRUE, p)]
    ELSE [outcome |-> "pass", result |-> NoResult]

\* smart_moderation from the await on: `return not result.violation, result`, or
\* the exception of run_ai_moderation_and_log.  On the uncertain path the await sits
\* inside the try: the exception is caught as a failed prediction and the
\* adjudicator is asked once more after the except clause.
AiOutcome(route, fs, text, api_key, reply) ==
    LET a == run_ai_moderation_and_log(fs, text, api_key, reply)
        b == IF a.raised /\ route = "uncertain"
             THEN run_ai_moderation_and_log(fs, text, api_key, reply) ELSE a
    IN  [outcome |-> IF b.raised THEN "raise"
                     ELSE IF b.result.violation THEN "reject" ELSE "pass",
         result |-> b.result,
         ai_calls |-> IF a.raised /\ route = "uncertain" THEN 2 ELSE 1,
         fs |-> b.fs]

Profiles ==
    {[seed |-> s, rate |-> r, low |-> l, high |-> h] :
        s \in Seeds, r \in Rates, l \in Probs, h \in Probs}

ValidProfiles == {pr \in Profiles : pr.low <= pr.high}

MaxAdjudications == 2

SmartInit ==
    /\ db = NoDb /\ sqlite = NoFile /\ bak = NoFile
    /\ lastOp = [op |-> "none"]
    /\ call = NoCall /\ dbBefore = NoDb
    /\ req = NoRequest
    /\ tr = NoTransformer
    /\ det = NoDetection
    /\ TrainingIdle

\* The record of a call: an input the taken path never looks at is recorded as unread.
\* drawn is the number of draws the process RNG has made since it was last seeded, once
\* the call has compared its draw with ai_review_rate: smart_moderation seeds the RNG
\* (line 100) and draws once (line 105).
CallRecord(route, text, profile, model, p) ==
    LET readP == route \in {"local_pass", "local_reject", "uncertain"}
        local == LocalOutcome(route, p)
    IN  [route |-> route,
         stage |-> IF route \in AiRoutes THEN "awaiting_ai" ELSE "returned",
         outcome |-> IF route \in AiRoutes THEN "pending" ELSE local.outcome,
         result |-> IF route \in AiRoutes THEN NoResult ELSE local.result,
         ai_calls |-> 0,
         text |-> IF route = "disabled" THEN "" ELSE text,
         seed |-> IF route = "disabled" THEN -1 ELSE profile.seed,
         rate |-> IF route = "disabled" THEN -1 ELSE profile.rate,
         drawn |-> IF route = "disabled" THEN -1 ELSE 1,
         low |-> IF readP THEN profile.low ELSE -1,
         high |-> IF readP THEN profile.high ELSE -1,
         model |-> IF route \in {"disabled", "sampled"} THEN "unread" ELSE model,
         p |-> IF readP THEN p ELSE -1,
         api_key |-> FALSE, reply |-> NoReply]

\* Every call a caller can make, as recorded: text, cfg["enabled"], the profile that
\* cfg names, and what the local model does.
SmartCalls ==
    {CallRecord(SmartRoute(enabled, profile, model, p), text, profile, model, p) :
        text \in SmartTexts, enabled \in BOOLEAN, profile \in ValidProfiles,
        model \in {"missing", "raises", "ok"}, p \in Probs}

Idle == call.stage = "returned"

\* A caller awaits smart_moderation(text, cfg); the call runs to its first await.
SmartModerationCall ==
    /\ Idle
    /\ Cardinality(DOMAIN db.samples) < MaxAdjudications
    /\ \E c \in SmartCalls : call' = c
    /\ dbBefore' = db
    /\ UNCHANGED <<storeVars, proxyVars, trainVars, streamVars, detectVars>>

\* smart_moderation resumes from its await and returns or raises.
AiResumes(api_key, reply) ==
    LET r == AiOutcome(call.route, [db |-> db, sqlite |-> sqlite, bak |-> bak],
                       call.text, api_key, reply)
    IN  /\ call' = [call EXCEPT !.stage = "returned", !.outcome = r.outcome,
                                !.result = r.result, !.ai_calls = r.ai_calls,
                                !.api_key = api_key,
                                !.reply = IF api_key THEN reply ELSE NoReply]
        /\ db' = r.fs.db /\ sqlite' = r.fs.sqlite /\ bak' = r.fs.bak

\* The adjudication ends for a caller of smart_moderation.
AiAdjudicated ==
    /\ call.stage = "awaiting_ai"
    /\ \E api_key \in BOOLEAN, reply \in Replies : AiResumes(api_key, reply)
    /\ UNCHANGED <<lastOp, dbBefore, proxyVars, trainVars, streamVars, detectVars>>

SmartNext == SmartModerationCall \/ AiAdjudicated

SpecSmart == SmartInit /\ [][SmartNext]_vars

(***************************************************************************)
(* Claims about the smart stage, checked under SpecSmart.                  *)
(***************************************************************************)
Returned == call.route \notin {"none", "disabled"} /\ call.stage = "returned"

Adjudicated == Returned /\ call.route \in AiRoutes

\* The adjudicator itself answered "violation": its reply is a JSON object saying so.
AiSaidViolation ==
    call.api_key /\ call.reply.kind = "json" /\ call.reply.violation = "true"

\* The adjudication failed: no API key, the call raised, or the reply holds no JSON
\* object or one that does not parse.
AiFailed == ~call.api_key \/ call.reply.kind \in {"raise", "text", "badjson"}

LocalSaidViolation == call.route \in {"local_pass", "local_reject"} /\ call.p > call.high

\* C1: an enabled smart_moderation call rejects exactly when the oracle that decided
\* it reported a violation (local p > high, or the adjudicator answering
\* violation=true); in every other outcome, a failed adjudication included, it passes.
C1_RejectsIffOracleViolation ==
    Returned =>
        LET violation == IF call.route \in AiRoutes THEN AiSaidViolation
                         ELSE LocalSaidViolation
        IN  /\ (call.outcome = "reject") <=> violation
            /\ ~violation => call.outcome = "pass"

\* C2: whichever way the adjudication fails, ai_moderate yields violation=false tagged
\* as error and smart_moderation passes the request: it neither raises nor rejects.
C2_AiFailureNeverBlocks ==
    (Adjudicated /\ AiFailed) =>
        /\ call.outcome = "pass"
        /\ call.result.source = "ai"
        /\ ~call.result.violation
        /\ call.result.category = "error"

NotSampled == call.route \notin {"none", "disabled"} /\ FirstDraw(call.seed) >= call.rate

SentToAi ==
    /\ call.route \in AiRoutes
    /\ call.stage = "awaiting_ai" \/ call.ai_calls >= 1
    /\ call.outcome \in {"pass", "reject"} => call.result.source = "ai"

DecidedLocally(outcome) ==
    /\ call.stage = "returned" /\ call.outcome = outcome /\ call.ai_calls = 0
    /\ call.result.source = "bow_model"

\* C3: a call that is not sampled for review is routed by the local probability:
\* p < low passes locally with source bow_model, p > high rejects locally,
\* low <= p <= high goes to the adjudicator; with no local model, or a prediction that
\* raises, the call always goes to the adjudicator.
C3_RoutingByLocalProbability ==
    NotSampled =>
        /\ call.model \in {"missing", "raises", "ok"}
        /\ call.model \in {"missing", "raises"} => SentToAi
        /\ call.model = "ok" =>
              /\ call.p < call.low => DecidedLocally("pass")
              /\ call.p > call.high => DecidedLocally("reject")
              /\ (call.low <= call.p /\ call.p <= call.high) => SentToAi

\* C3 witness: an unsampled call whose p equals both thresholds came back from the
\* adjudicator with a rejection.
C3_Witness ==
    /\ NotSampled /\ call.stage = "returned" /\ call.model = "ok"
    /\ call.p = call.low /\ call.p = call.high
    /\ call.outcome = "reject" /\ call.result.source = "ai"

NewIds == DOMAIN db.samples \ DOMAIN dbBefore.samples

OldSamplesKept ==
    /\ DOMAIN dbBefore.samples \subseteq DOMAIN db.samples
    /\ \A i \in DOMAIN dbBefore.samples : db.samples[i] = dbBefore.samples[i]

\* C4: every adjudication, successful or failed, adds exactly one record to the sample
\* store, labelled 1 iff the adjudicator reported a violation and carrying the
\* returned category; a call the local model decides leaves the store unchanged.
C4_OneSamplePerAdjudication ==
    /\ Adjudicated =>
          /\ OldSamplesKept
          /\ Cardinality(NewIds) = 1
          /\ \A i \in NewIds :
                /\ db.samples[i].text = call.text
                /\ db.samples[i].label = (IF call.result.violation THEN 1 ELSE 0)
                /\ db.samples[i].category = call.result.category
    /\ (Returned /\ call.route \in {"local_pass", "local_reject"}) => db = dbBefore

(***************************************************************************)
(* Basic moderation (ai_proxy/moderation/basic.py).                        *)
(*                                                                         *)
(* TLC's strings are atomic, so a string the filter looks into is spelt    *)
(* out as its characters by Spell and put together again by Join.          *)
(***************************************************************************)
Spell ==
    "" :> <<>> @@ "a" :> <<"a">> @@ "b" :> <<"b">> @@ "#a" :> <<"#", "a">>
    @@ " b " :> <<" ", "b", " ">> @@ "a.b" :> <<"a", ".", "b">>
    @@ "A.B" :> <<"A", ".", "B">> @@ "aXb" :> <<"a", "X", "b">>

RECURSIVE Join(_)
Join(chars) == IF chars = <<>> THEN "" ELSE Head(chars) \o Join(Tail(chars))

\* str.strip() of a line.
RECURSIVE Strip(_)
Strip(chars) ==
    IF chars = <<>> THEN chars
    ELSE IF Head(chars) = " " THEN Strip(Tail(chars))
    ELSE IF chars[Len(chars)] = " " THEN Strip(SubSeq(chars, 1, Len(chars) - 1))
    ELSE chars

\* The characters re.escape puts a backslash in front of, among those used here.
SpecialChars == {".", " ", "#"}

RECURSIVE re_escape(_)
re_escape(chars) ==
    IF chars = <<>> THEN <<>>
    ELSE (IF Head(chars) \in SpecialChars THEN <<"\\", Head(chars)>> ELSE <<Head(chars)>>)
         \o re_escape(Tail(chars))

\* re.compile(re.escape(kw), re.IGNORECASE): the pattern's source and its characters.
Compile(kw) == [pattern |-> Join(re_escape(kw)), chars |-> re_escape(kw)]

\* _load_patterns: one pattern per line that is neither blank nor a comment.
RECURSIVE LoadLines(_)
LoadLines(lines) ==
    IF lines = <<>> THEN <<>>
    ELSE LET kw == Strip(Spell[Head(lines)]) IN
         (IF kw = <<>> \/ Head(kw) = "#" THEN <<>> ELSE <<Compile(kw)>>)
         \o LoadLines(Tail(lines))

\* reload_if_needed and _load_patterns: no patterns when the file does not exist.
_load_patterns(file) == IF file.present THEN LoadLines(file.lines) ELSE <<>>

Lower(c) == IF c = "A" THEN "a" ELSE IF c = "B" THEN "b" ELSE IF c = "X" THEN "x" ELSE c

\* What an escaped pattern matches literally: each backslash quotes the next character.
RECURSIVE Literal(_)
Literal(chars) ==
    IF chars = <<>> THEN <<>>
    ELSE IF Head(chars) = "\\" THEN <<chars[2]>> \o Literal(SubSeq(chars, 3, Len(chars)))
    ELSE <<Head(chars)>> \o Literal(Tail(chars))

\* lit occurs in text, letter case ignored.
Occurs(lit, text) ==
    \E i \in 1..(Len(text) - Len(lit) + 1) :
        \A j \in 1..Len(lit) : Lower(text[i + j - 1]) = Lower(lit[j])

\* p.search(text)
PatternSearch(pat, text) == Occurs(Literal(pat.chars), Spell[text])

\* KeywordFilter.match: the pattern source of the first pattern found in the text.
match(patterns, text) ==
    LET hits == {i \in 1..Len(patterns) : PatternSearch(patterns[i], text)}
    IN  IF hits = {} THEN None
        ELSE patterns[CHOOSE i \in hits : \A k \in hits : i <= k].pattern

\* basic_moderation(text, cfg) with cfg = [enabled, file]
basic_moderation(text, cfg) ==
    IF ~cfg.enabled THEN [passed |-> TRUE, reason |-> None]
    ELSE LET matched_kw == match(_load_patterns(cfg.file), text) IN
         IF matched_kw # None
         THEN [passed |-> FALSE,
               reason |-> "[BASIC_MODERATION_BLOCKED] Matched keyword: " \o matched_kw]
         ELSE [passed |-> TRUE, reason |-> None]

(***************************************************************************)
(* The request pipeline (ai_proxy/proxy/router.py).                        *)
(***************************************************************************)
KeywordFiles ==
    {[present |-> FALSE, lines |-> <<>>],
     [present |-> TRUE, lines |-> <<"#a", " b ">>],
     [present |-> TRUE, lines |-> <<"", "a.b", "a">>]}

NoKeywords == [present |-> FALSE, lines |-> <<>>]

BasicConfigs ==
    {[enabled |-> FALSE, file |-> NoKeywords]}
    \cup {[enabled |-> TRUE, file |-> f] : f \in KeywordFiles}

ProxyTexts == {"a", "A.B", "aXb"}

\* The profiles requests name in their smart_moderation config.
ProxyProfiles == {pr \in ValidProfiles : pr.seed = 0 /\ pr.low = 50 /\ pr.high = 50}

NoProfile == [seed |-> -1, rate |-> -1, low |-> -1, high |-> -1]

\* config["smart_moderation"] with what the profile's local model would do.
SmartConfigs ==
    {[enabled |-> FALSE, profile |-> NoProfile, model |-> "unread", p |-> -1]}
    \cup {[enabled |-> TRUE, profile |-> pr, model |-> m, p |-> p] :
             pr \in ProxyProfiles, m \in {"missing", "raises", "ok"}, p \in Probs}

(***************************************************************************)
(* Dialect detection: transform/formats/parser.py and the detectors of the *)
(* format modules.  A path is the sequence of its segments, a body the     *)
(* facts the detectors and decoders read from it.                          *)
(***************************************************************************)
\* `"/a/b" in path`: the segments occur in the path, next to each other.
InPath(sub, path) ==
    \E i \in 1..(Len(path) - Len(sub) + 1) : SubSeq(path, i, i + Len(sub) - 1) = sub

Paths ==
    {<<"v1", "chat", "completions">>, <<"v1", "completions">>, <<"v1", "messages">>,
     <<"api", "query">>}

\* messages: absent, a list whose first item has a role (content a string, or a list of
\* typed blocks); tools: absent, well-formed, or a function without a name;
\* params: one of max_tokens, temperature, top_p, stop, model is a key of the body.
Body(prompt, messages, tools, params, options) ==
    [prompt |-> prompt, messages |-> messages, tools |-> tools, params |-> params,
     options |-> options]

Bodies ==
    {Body(FALSE, "roles", "none", TRUE, FALSE),
     Body(FALSE, "roles", "nameless", TRUE, FALSE),
     Body(FALSE, "blocks", "none", TRUE, FALSE),
     Body(TRUE, "absent", "none", TRUE, FALSE),
     Body(TRUE, "absent", "none", FALSE, TRUE),
     Body(FALSE, "absent", "none", FALSE, FALSE)}

\* Request headers: whether anthropic-version is among them.
HeaderSets == BOOLEAN

can_parse_openai_chat(path, headers, body) ==
    IF body.prompt /\ body.messages = "absent" THEN FALSE
    ELSE IF InPath(<<"chat", "completions">>, path) THEN TRUE
    ELSE body.messages \in {"roles", "blocks"}

can_parse_openai_codex(path, headers, body) ==
    IF InPath(<<"chat", "completions">>, path) THEN FALSE
    ELSE IF (InPath(<<"completions">>, path) \/ InPath(<<"complete">>, path))
            /\ ~InPath(<<"chat">>, path)
    THEN TRUE
    ELSE body.prompt /\ body.messages = "absent" /\ body.params

\* The detector of claude_chat: the /messages path with an anthropic-version header, or
\* messages whose content is a list of typed blocks.
can_parse_claude_chat(path, headers, body) ==
    \/ path # <<>> /\ path[Len(path)] = "messages" /\ headers
    \/ body.messages = "blocks"

\* The detector of claude_code: a prompt with an options object.
can_parse_claude_code(path, headers, body) ==
    body.prompt /\ body.options

\* PARSERS, in registration order.
PARSERS == <<"openai_chat", "claude_chat", "claude_code", "openai_codex">>

can_parse(name, path, headers, body) ==
    IF name = "openai_chat" THEN can_parse_openai_chat(path, headers, body)
    ELSE IF name = "claude_chat" THEN can_parse_claude_chat(path, headers, body)
    ELSE IF name = "claude_code" THEN can_parse_claude_code(path, headers, body)
    ELSE can_parse_openai_codex(path, headers, body)

\* parser.from_format(body): the internal request, or the exception it raises.
\* from_openai_chat reads func["name"] of every function tool.
parser_from_format(name, body) ==
    IF name = "openai_chat" /\ body.tools = "nameless"
    THEN [raised |-> TRUE, parsed_as |-> name, body |-> body]
    ELSE [raised |-> FALSE, parsed_as |-> name, body |-> body]

\* config["format_transform"]["from"]: "auto", one name, a list of names, or
\* something else.
FromStr(name) == [kind |-> "str", name |-> name, names |-> <<>>]

FromList(names) == [kind |-> "list", name |-> "", names |-> names]

FromOther == [kind |-> "other", name |-> "", names |-> <<>>]

\* The names a configuration may hold: the registered ones and one that is not.
ConfigNames == Range(PARSERS) \cup {"gemini_chat"}

ConfigFroms ==
    {FromStr("auto"), FromOther}
    \cup {FromStr(n) : n \in ConfigNames}
    \cup {FromList(<<n>>) : n \in ConfigNames}
    \cup {FromList(<<n1, n2>>) : n1 \in ConfigNames, n2 \in ConfigNames}

\* detect_and_parse, step 1: the candidate list.
Candidates_of(config_from) ==
    IF config_from.kind = "str"
    THEN (IF config_from.name = "auto" THEN PARSERS ELSE <<config_from.name>>)
    ELSE IF config_from.kind = "list" THEN config_from.names
    ELSE PARSERS

\* Step 2 with the candidates tried in registration order instead of the configured one.
TryCandidates_registry_order(candidates, path, headers, body) ==
    LET ok == SelectSeq(PARSERS, LAMBDA n : n \in Range(candidates)
                                            /\ can_parse(n, path, headers, body)
                                            /\ ~parser_from_format(n, body).raised)
    IN  IF ok = <<>> THEN <<>> ELSE <<ok[1], parser_from_format(ok[1], body)>>

\* detect_and_parse, step 2: try the candidates in order; an unregistered name, a
\* detector that declines and a decoder that raises go on to the next.
RECURSIVE TryCandidates(_, _, _, _)
TryCandidates(candidates, path, headers, body) ==
    IF candidates = <<>> THEN <<>>
    ELSE LET name == Head(candidates)
         IN  IF name \in Range(PARSERS) /\ can_parse(name, path, headers, body)
                /\ ~parser_from_format(name, body).raised
             THEN <<name, parser_from_format(name, body)>>
             ELSE TryCandidates(Tail(candidates), path, headers, body)

\* detect_and_parse, step 3 in strict mode: the registered formats left out of the
\* candidates whose detector accepts, in registration order.
detectable_formats(candidates, path, headers, body) ==
    SelectSeq(PARSERS, LAMBDA f : f \notin Range(candidates)
                                  /\ can_parse(f, path, headers, body))

\* None as the internal request of the returned tuple.
NoInternal == [parsed_as |-> None]

\* ", ".join(f"'{f}'" for f in detectable_formats)
RECURSIVE JoinQuoted(_)
JoinQuoted(names) ==
    IF names = <<>> THEN ""
    ELSE "'" \o Head(names) \o "'"
         \o (IF Tail(names) = <<>> THEN "" ELSE ", " \o JoinQuoted(Tail(names)))

\* The error message that names the formats detected among the excluded ones.
FormatMismatch(detectable) ==
    "Format mismatch: Request appears to be in format [" \o JoinQuoted(detectable) \o "]"

\* The tuple detect_and_parse returns: (format name, internal request, error message).
detect_and_parse(config_from, path, headers, body, strict_parse) ==
    LET candidates == Candidates_of(config_from)
        hit == TryCandidates(candidates, path, headers, body)
        detectable == detectable_formats(candidates, path, headers, body)
    IN  IF hit # <<>> THEN <<hit[1], hit[2], None>>
        ELSE IF strict_parse
        THEN (IF detectable # <<>>
              THEN <<None, NoInternal, FormatMismatch(detectable)>>
              ELSE <<None, NoInternal, "Unable to parse request format">>)
        ELSE <<None, NoInternal, None>>

get_parser(format_name) ==
    IF format_name \in Range(PARSERS) THEN format_name ELSE None

DetectInit ==
    /\ db = NoDb /\ sqlite = NoFile /\ bak = NoFile
    /\ lastOp = [op |-> "none"]
    /\ call = NoCall /\ dbBefore = NoDb
    /\ req = NoRequest
    /\ tr = NoTransformer
    /\ det = NoDetection
    /\ TrainingIdle

\* A caller detects the dialect of a request.
DetectAndParse ==
    /\ det.stage = "none"
    /\ \E config_from \in ConfigFroms, path \in Paths, headers \in HeaderSets,
          body \in Bodies, strict_parse \in BOOLEAN :
           det' = [stage |-> "returned", config_from |-> config_from, path |-> path,
                   headers |-> headers, body |-> body, strict_parse |-> strict_parse,
                   result |-> detect_and_parse(config_from, path, headers, body,
                                               strict_parse)]
    /\ UNCHANGED <<storeVars, smartVars, proxyVars, trainVars, streamVars>>

DetectNext == DetectAndParse

SpecDetect == DetectInit /\ [][DetectNext]_vars

\* config["format_transform"]: enabled, from, to, strict_parse.
TransformConfig(enabled, from, to, strict_parse) ==
    [enabled |-> enabled, from |-> from, to |-> to, strict_parse |-> strict_parse]

TransformConfigs ==
    {TransformConfig(FALSE, FromStr("auto"), None, FALSE),
     TransformConfig(TRUE, FromStr("auto"), "openai_chat", FALSE),
     TransformConfig(TRUE, FromStr("auto"), "openai_codex", FALSE),
     TransformConfig(TRUE, FromList(<<"claude_chat">>), "openai_chat", TRUE)}

\* The path, headers and body of the requests that reach the proxy.
Shape(path, headers, body) == [path |-> path, headers |-> headers, body |-> body]

Shapes ==
    {Shape(<<"v1", "chat", "completions">>, FALSE, Body(FALSE, "roles", "none", TRUE, FALSE)),
     Shape(<<"api", "query">>, FALSE, Body(FALSE, "absent", "none", FALSE, FALSE))}

\* cfg_and_upstream, in pieces: "$" is the separator, the other pieces hold no "$".
Urls ==
    {<<"%7B%7D", "$", "http://up">>, <<"{}", "$", "http://up", "$", "x">>,
     <<"%7B%7D", "http://up">>, <<"%7B", "$", "http://up">>, <<"$", "http://up">>}

\* str.rsplit("$", 1): the split at the last "$".
split_at_last(s, before) ==
    LET at == {i \in DOMAIN s : s[i] = "$"}
        last == CHOOSE i \in at : \A j \in at : j <= i
    IN  IF at = {} THEN <<before \o s>>
        ELSE <<before \o SubSeq(s, 1, last - 1), SubSeq(s, last + 1, Len(s))>>

\* str.split("$", 1)
RECURSIVE split_once(_, _)
split_once(s, before) ==
    IF s = <<>> THEN <<before>>
    ELSE IF Head(s) = "$" THEN <<before, Tail(s)>>
    ELSE split_once(Tail(s), Append(before, Head(s)))

\* urllib.parse.unquote of a piece
unquote(piece) ==
    IF piece = "%7B%7D" THEN "{}" ELSE IF piece = "%7B" THEN "{" ELSE piece

\* json.loads of the unquoted config part: it parses when it is the text of an object.
json_loads(pieces) ==
    IF Len(pieces) = 1 /\ unquote(pieces[1]) = "{}"
    THEN [raised |-> FALSE] ELSE [raised |-> TRUE]

\* parse_url_config: the upstream, or the HTTPException(400, detail) it raises.
parse_url_config(cfg_and_upstream) ==
    LET parts == split_once(cfg_and_upstream, <<>>)
    IN  IF Len(parts) # 2
        THEN [raised |-> TRUE, detail |-> "Invalid URL format", upstream |-> <<>>]
        ELSE IF json_loads(parts[1]).raised
        THEN [raised |-> TRUE, detail |-> "Config parse error", upstream |-> <<>>]
        ELSE [raised |-> FALSE, detail |-> None, upstream |-> parts[2]]

\* A request and its URL configuration; encode_raises says whether the to_format of
\* the target dialect raises on the request, which only a request to transform reaches.
RequestInputs ==
    {in \in [url : Urls, basic : BasicConfigs, smart : SmartConfigs,
             transform : TransformConfigs, shape : Shapes, text : ProxyTexts,
             encode_raises : BOOLEAN] :
        in.encode_raises => in.transform.enabled}

NoResponse == [status |-> 0, code |-> None, message |-> None]

JSONResponse(status, code, message) == [status |-> status, code |-> code, message |-> message]

\* `src_format, internal_req = <tuple>`: the two names are bound when the tuple has two
\* elements, otherwise the assignment raises ValueError.
Unpack2(t) ==
    IF Len(t) = 2 THEN [raised |-> FALSE, src_format |-> t[1], internal_req |-> t[2]]
    ELSE [raised |-> TRUE, src_format |-> None, internal_req |-> NoInternal]

\* process_request returns (True, None, body, ...): the request passes with its own body.
PassThrough == [passed |-> TRUE, error_msg |-> None, transformed_body |-> "body"]

\* The result of a stage that did not pass.
Blocked(error_msg) == [passed |-> FALSE, error_msg |-> error_msg, transformed_body |-> None]

\* process_request, lines 69 and 99-119: the body to forward after both stages passed,
\* or the error of a to_format that raised.
FormatTransform(transform, src_format, encode_raises) ==
    LET target_format == IF transform.to = None THEN src_format ELSE transform.to
    IN  IF ~transform.enabled \/ target_format = src_format
           \/ get_parser(target_format) = None
        THEN PassThrough
        ELSE IF encode_raises
        THEN Blocked("Format transform error: e")
        ELSE [PassThrough EXCEPT !.transformed_body = "to_" \o target_format]

\* proxy_entry, lines 156-185: answer 400 or call the upstream forwarder.
Answer(r, rq) ==
    IF ~r.passed
    THEN [rq EXCEPT !.stage = "done",
                    !.response = JSONResponse(400, "MODERATION_BLOCKED", r.error_msg)]
    ELSE [rq EXCEPT !.stage = "forwarding", !.trace = @ \o <<"upstream">>,
                    !.forwarded = r.transformed_body]

\* The request as proxy_entry sees it; what no line reads is recorded as unread.
Unread(in) ==
    [stage |-> "entered", url |-> in.url, upstream |-> <<>>, shape |-> in.shape,
     transform |-> in.transform, encode_raises |-> in.encode_raises, src_format |-> None,
     basic |-> [enabled |-> FALSE, file |-> NoKeywords], smart_enabled |-> FALSE,
     text |-> in.text, moderated |-> "", trace |-> <<>>, forwarded |-> None,
     configured |-> [basic |-> in.basic.enabled, smart |-> in.smart.enabled],
     response |-> NoResponse]

\* The text process_request hands to the moderation stages.  With the transform
\* disabled it is extract_text_for_moderation(body, "openai_chat"), which reads
\* body["messages"] and is empty for a body without that key; with it enabled it is
\* extract_text_from_internal of the request detect_and_parse decoded.
ModeratedText(in) ==
    IF ~in.transform.enabled /\ in.shape.body.messages = "absent" THEN "" ELSE in.text

\* proxy_entry and process_request up to the first await that leaves the process:
\* the request record and the smart_moderation call made for it, if any.
Entry(in) ==
    LET u == parse_url_config(in.url)
        r0 == [Unread(in) EXCEPT !.upstream = u.upstream]
        d == IF in.transform.enabled
             THEN Unpack2(detect_and_parse(in.transform.from, in.shape.path,
                                           in.shape.headers, in.shape.body, FALSE))
             ELSE [raised |-> FALSE, src_format |-> None, internal_req |-> NoInternal]
        r1 == [r0 EXCEPT !.src_format = d.src_format]
        r2 == [r1 EXCEPT !.moderated = ModeratedText(in), !.basic = in.basic,
                         !.trace = IF in.basic.enabled THEN <<"basic">> ELSE <<>>]
        b == IF in.basic.enabled THEN basic_moderation(ModeratedText(in), in.basic)
             ELSE [passed |-> TRUE, reason |-> None]
        r3 == [r2 EXCEPT !.smart_enabled = in.smart.enabled,
                         !.trace = IF in.smart.enabled THEN @ \o <<"smart">> ELSE @]
        c == CallRecord(SmartRoute(TRUE, in.smart.profile, in.smart.model, in.smart.p),
                        ModeratedText(in), in.smart.profile, in.smart.model, in.smart.p)
        t == FormatTransform(in.transform, d.src_format, in.encode_raises)
    IN  IF u.raised
        THEN [req |-> [r0 EXCEPT !.stage = "done",
                                 !.response = JSONResponse(400, "CONFIG_PARSE_ERROR",
                                                           u.detail)],
              call |-> NoCall]
        ELSE IF d.raised
        THEN [req |-> [r0 EXCEPT !.stage = "done",
                                 !.response = JSONResponse(500, "Internal Server Error",
                                                           None)],
              call |-> NoCall]
        ELSE IF in.transform.enabled /\ d.src_format = None
        THEN [req |-> Answer(PassThrough, r1), call |-> NoCall]
        ELSE IF ~b.passed
        THEN [req |-> Answer(Blocked(b.reason), r2), call |-> NoCall]
        ELSE IF ~in.smart.enabled
        THEN [req |-> Answer(t, r3), call |-> NoCall]
        ELSE IF c.stage = "awaiting_ai"
        THEN [req |-> [r3 EXCEPT !.stage = "awaiting_ai"], call |-> c]
        ELSE IF c.outcome = "reject"
        THEN [req |-> Answer(Blocked("Smart moderation: reason"), r3), call |-> c]
        ELSE [req |-> Answer(t, r3), call |-> c]

Entries == {Entry(in) : in \in RequestInputs}

\* process_request and proxy_entry after smart_moderation returned or raised.  Nothing
\* in them catches the exception, so the framework answers it with status 500.
Resume(rq, c) ==
    IF c.outcome = "raise"
    THEN [rq EXCEPT !.stage = "done",
                    !.response = JSONResponse(500, "Internal Server Error", None)]
    ELSE IF c.outcome = "reject"
    THEN Answer(Blocked("Smart moderation: reason"), rq)
    ELSE Answer(FormatTransform(rq.transform, rq.src_format, rq.encode_raises), rq)

MaxProxySamples == 1

ProxyInit ==
    /\ db = NoDb /\ sqlite = NoFile /\ bak = NoFile
    /\ lastOp = [op |-> "none"]
    /\ call = NoCall /\ dbBefore = NoDb
    /\ req = NoRequest
    /\ tr = NoTransformer
    /\ det = NoDetection
    /\ TrainingIdle

\* A request arrives: proxy_entry runs through both moderation stages as far as the
\* adjudicator or the upstream forwarder.
ProxyEntry ==
    /\ req.stage \in {"idle", "done"}
    /\ Cardinality(DOMAIN db.samples) < MaxProxySamples
    /\ \E e \in Entries : req' = e.req /\ call' = e.call
    /\ dbBefore' = db
    /\ UNCHANGED <<storeVars, trainVars, streamVars, detectVars>>

\* The adjudication ends: the handler resumes inside smart_moderation.
ProxyAiAdjudicated ==
    /\ req.stage = "awaiting_ai"
    /\ \E api_key \in BOOLEAN, reply \in Replies : AiResumes(api_key, reply)
    /\ req' = Resume(req, call')
    /\ UNCHANGED <<lastOp, dbBefore, trainVars, streamVars, detectVars>>

\* forward_request returns the upstream's response or raises.
UpstreamAnswered ==
    /\ req.stage = "forwarding"
    /\ \E up \in {"response", "raises"} :
           req' = [req EXCEPT !.stage = "done",
                              !.response = IF up = "raises"
                                           THEN JSONResponse(500, "PROXY_ERROR", None)
                                           ELSE JSONResponse(200, "upstream", None)]
    /\ UNCHANGED <<storeVars, smartVars, trainVars, streamVars, detectVars>>

ProxyNext == ProxyEntry \/ ProxyAiAdjudicated \/ UpstreamAnswered

SpecProxy == ProxyInit /\ [][ProxyNext]_vars

(***************************************************************************)
(* Claim about the request pipeline, checked under SpecProxy.              *)
(***************************************************************************)
\* The keywords of a keyword file: its lines, stripped, blank and comment lines left out.
Keywords(file) ==
    {kw \in {Strip(Spell[file.lines[i]]) : i \in DOMAIN file.lines} :
        kw # <<>> /\ Head(kw) # "#"}

\* The basic stage ran on the request and a keyword of the file occurs in the text it
\* was handed.
BasicMatched ==
    /\ req.stage # "idle" /\ req.basic.enabled
    /\ \E kw \in Keywords(req.basic.file) : Occurs(kw, Spell[req.moderated])

\* C5: a request whose text the basic stage matches against a keyword ends with status
\* 400, code MODERATION_BLOCKED and a message naming a keyword that matched; along that
\* request the smart stage is never entered (no adjudication, no sample written) and
\* the upstream forwarder is never called.
C5_KeywordBlockNamesKeyword ==
    BasicMatched =>
        /\ req.stage = "done"
        /\ req.response.status = 400 /\ req.response.code = "MODERATION_BLOCKED"
        /\ \E kw \in Keywords(req.basic.file) :
              /\ Occurs(kw, Spell[req.moderated])
              /\ req.response.message =
                     "[BASIC_MODERATION_BLOCKED] Matched keyword: " \o Join(kw)
        /\ req.trace = <<"basic">>
        /\ call = NoCall /\ db = dbBefore

(***************************************************************************)
(* The training lifecycle (tools/train_bow_model.py, train_fasttext_model  *)
(* .py, train_hashlinear_model.py and smart/scheduler.py).                 *)
(*                                                                         *)
(* A trainer is an operating-system process: each of its accesses to a     *)
(* lock file is a step of its own, and it can die between any two steps.   *)
(***************************************************************************)
FileLockKinds == {"bow", "fasttext"}

Running(pr) == pr.pc \notin {"none", "exited", "dead"}

\* _is_process_alive(pid): os.kill(pid, 0) succeeds.
_is_process_alive(pid) ==
    pid = ServerPid \/ \E s \in Slots : procs[s].pid = pid /\ Running(procs[s])

\* The script scheduler._resolve_training_script picks for a profile.
_resolve_training_script(profile) ==
    IF local_model_type[profile] = "fasttext" THEN "fasttext" ELSE "bow"

\* should_train, lines 207-215: the variant whose training config (min_samples,
\* retrain_interval_minutes) and model file decide whether the profile is to be trained.
should_train_variant(profile) ==
    IF local_model_type[profile] = "fasttext" THEN "fasttext" ELSE "bow"

MaxPid == 3

\* The process is gone: its pid names no process any more.
Gone(pr, pc) == [pr EXCEPT !.pc = pc, !.pid = 0, !.ppid = 0, !.profile = "none"]

sys_exit(pr, rc) == Gone([pr EXCEPT !.rc = rc], "exited")

\* main() up to the lock: train_fasttext_model.py leaves with 1 when the store holds
\* fewer than min_samples samples.
Launch(pid, ppid, kind, profile, enough) ==
    LET pr == [NoProc EXCEPT !.pc = "open", !.pid = pid, !.ppid = ppid, !.kind = kind,
                             !.profile = profile]
    IN  IF kind = "fasttext" /\ ~enough THEN sys_exit(pr, 1) ELSE pr

\* SampleStorage(profile.get_db_path()) as trainers and the scheduler open it.
OpensStore ==
    LET o == SampleStorage(db, sqlite, bak)
    IN  db' = o.db /\ sqlite' = o.sqlite /\ bak' = o.bak

\* _save_training_status / _save_status
_save_training_status(profile, st) ==
    statusFile' = [statusFile EXCEPT ![profile] = [status |-> st, fresh |-> TRUE]]

\* The payload a trainer writes into the lock file it holds.
Payload(l, pid) ==
    [l EXCEPT !.present = TRUE, !.pid = pid, !.stamped = TRUE, !.old = FALSE,
              !.type = "subprocess", !.creator = IF l.present THEN l.creator ELSE pid]

\* _parse_lock_file: a file that is missing or holds no key=value line parses to {}.
_parse_lock_file(l) == IF l.present THEN l ELSE NoLock

\* The slots a new process can take: those of no running process, the scheduler's
\* child excepted until the scheduler has seen its exit code.
FreeSlots ==
    {s \in Slots : ~Running(procs[s]) /\ (sched.pc = "waiting" => sched.child # s)}

\* A new process takes the first free slot.
IsFirstFree(s) == s \in FreeSlots /\ \A t \in FreeSlots : s <= t

\* An operator runs the trainer script of a profile's model type from a shell.
StartTrainer(s) ==
    /\ IsFirstFree(s) /\ nextPid <= MaxPid
    /\ \E profile \in Range(ProfileNames) :
       \E enough \in IF local_model_type[profile] = "fasttext" THEN BOOLEAN ELSE {TRUE} :
           /\ procs' = [procs EXCEPT ![s] = Launch(nextPid, 0, local_model_type[profile],
                                                   profile, enough)]
           /\ IF local_model_type[profile] = "fasttext" THEN OpensStore
              ELSE UNCHANGED <<db, sqlite, bak>>
    /\ nextPid' = nextPid + 1
    /\ UNCHANGED <<lastOp, smartVars, proxyVars, lock, glock, statusFile, models, sched, streamVars, detectVars>>

\* _acquire_file_lock, line 86: os.open(lock_path, O_CREAT | O_EXCL | O_WRONLY).
TryCreate(s) ==
    LET pr == procs[s] IN
    /\ pr.pc = "open" /\ pr.kind \in FileLockKinds
    /\ IF ~lock[pr.profile].present
       THEN /\ lock' = [lock EXCEPT ![pr.profile] =
                            [NoLock EXCEPT !.present = TRUE, !.creator = pr.pid]]
            /\ procs' = [procs EXCEPT ![s].pc = "write"]
       ELSE /\ procs' = [procs EXCEPT ![s].pc = "parse"]
            /\ UNCHANGED lock
    /\ UNCHANGED <<storeVars, smartVars, proxyVars, glock, statusFile, models, sched, nextPid, streamVars, detectVars>>

\* _acquire_file_lock, lines 88-92, and main: the payload goes into the file just
\* created, the lock is held and the status "started" is recorded.
WritePayload(s) ==
    LET pr == procs[s] IN
    /\ pr.pc = "write"
    /\ lock' = IF lock[pr.profile].present /\ lock[pr.profile].creator = pr.pid
               THEN [lock EXCEPT ![pr.profile] = Payload(@, pr.pid)]
               ELSE lock
    /\ _save_training_status(pr.profile, "started")
    /\ procs' = [procs EXCEPT ![s].pc = "train", ![s].acquired = TRUE,
                              ![s].recorded = "started"]
    /\ UNCHANGED <<storeVars, smartVars, proxyVars, glock, models, sched, nextPid, streamVars, detectVars>>

\* _acquire_file_lock, lines 93-127: the file exists; read it and decide.
ParseLock(s) ==
    LET pr == procs[s]
        lock_info == _parse_lock_file(lock[pr.profile])
    IN  /\ pr.pc = "parse"
        /\ IF lock_info.type = "scheduler" /\ lock_info.pid = pr.ppid
           THEN /\ lock' = [lock EXCEPT ![pr.profile] = Payload(@, pr.pid)]
                /\ _save_training_status(pr.profile, "started")
                /\ procs' = [procs EXCEPT ![s].pc = "train", ![s].acquired = TRUE,
                                          ![s].recorded = "started"]
           ELSE /\ procs' = [procs EXCEPT ![s] =
                       IF lock_info.stamped /\ lock_info.old THEN [@ EXCEPT !.pc = "remove"]
                       ELSE IF lock_info.pid > 0 /\ ~_is_process_alive(lock_info.pid)
                       THEN [@ EXCEPT !.pc = "remove"]
                       ELSE sys_exit([@ EXCEPT !.lock_failed = TRUE], 2)]
                /\ UNCHANGED <<lock, statusFile>>
        /\ UNCHANGED <<storeVars, smartVars, proxyVars, glock, models, sched, nextPid, streamVars, detectVars>>

\* _acquire_file_lock, lines 114-115 and 119-120: os.remove(lock_path), then once more
\* from the top; a file gone meanwhile makes os.remove raise and the attempt fail.
RemoveStale(s) ==
    LET pr == procs[s] IN
    /\ pr.pc = "remove"
    /\ IF lock[pr.profile].present
       THEN /\ lock' = [lock EXCEPT ![pr.profile] = NoLock]
            /\ procs' = [procs EXCEPT ![s].pc = "open"]
       ELSE /\ procs' = [procs EXCEPT ![s] = sys_exit([@ EXCEPT !.lock_failed = TRUE], 2)]
            /\ UNCHANGED lock
    /\ UNCHANGED <<storeVars, smartVars, proxyVars, glock, statusFile, models, sched, nextPid, streamVars, detectVars>>

\* train_hashlinear_model.py main, lines 107-141: open(GLOBAL_LOCK_PATH, "w"), which
\* empties the file, then flock(LOCK_EX | LOCK_NB) and the payload; exit 2 when another
\* process holds the flock.
FlockGlobal(s) ==
    LET pr == procs[s] IN
    /\ pr.pc = "open" /\ pr.kind = "hashlinear"
    /\ IF glock.holder = 0
       THEN /\ glock' = [holder |-> pr.pid, payload |-> pr.pid]
            /\ _save_training_status(pr.profile, "started")
            /\ procs' = [procs EXCEPT ![s].pc = "train", ![s].acquired = TRUE,
                                      ![s].recorded = "started"]
       ELSE /\ procs' = [procs EXCEPT ![s] = sys_exit([@ EXCEPT !.lock_failed = TRUE], 2)]
            /\ glock' = [glock EXCEPT !.payload = 0] /\ UNCHANGED statusFile
    /\ UNCHANGED <<storeVars, smartVars, proxyVars, lock, models, sched, nextPid, streamVars, detectVars>>

\* What the trainers' validation checks on the live model file.  The file is absent,
\* corrupt (large enough, but it does not load or its canary prediction fails) or valid.
\*   bow: _validate_model_file (exists, size, joblib.load, predict_proba);
\*   fasttext: _validate_model_file (size, load, predict);
\*   hashlinear: main, lines 144-146 (exists, size >= 512).
\* A mixed bow pair does not pass: its classifier is missing or of another width.
ValidationPasses(kind, file) ==
    IF kind = "hashlinear" THEN file \in {"corrupt", "valid"} ELSE file = "valid"

\* main() after the training function: validate the live model file and record the
\* status; an exception of the training function or a failed validation is recorded
\* as failed and exits with 1.
Validate(s, file, raised) ==
    LET pr == procs[s]
        ok == ~raised /\ ValidationPasses(pr.kind, file)
        st == IF ok THEN "completed" ELSE "failed"
    IN  /\ _save_training_status(pr.profile, st)
        /\ procs' = [procs EXCEPT ![s].pc = "release",
                                  ![s].rc = IF ok THEN 0 ELSE 1,
                                  ![s].validated = IF raised THEN "none" ELSE file,
                                  ![s].recorded = st]

\* main(): the training function, which returns early when the store holds too few
\* samples, raises, or writes a model; the hashlinear one first trims the store.
\* train_hashlinear_model dumps to a temporary file and renames it over the live one;
\* train_bow_model dumps the vectorizer over the live vectorizer file (bow.py line 101)
\* and, in a later step, the classifier over the live classifier file: in between the
\* live pair is "mixed", a new vectorizer with the previous classifier or with none.
Train(s) ==
    LET pr == procs[s]
        path == <<pr.profile, pr.kind>>
    IN  /\ pr.pc = "train"
        /\ \E outcome \in {"too_few", "raises", "written"} :
              IF outcome = "written" /\ pr.kind = "bow"
              THEN /\ models' = [models EXCEPT ![path] = "mixed"]
                   /\ procs' = [procs EXCEPT ![s].pc = "dump"]
                   /\ UNCHANGED statusFile
              ELSE LET file == IF outcome = "written" THEN "valid" ELSE models[path]
                   IN  /\ models' = [models EXCEPT ![path] = file]
                       /\ Validate(s, file, outcome = "raises")
        /\ IF pr.kind = "hashlinear"
           THEN LET o == SampleStorage(db, sqlite, bak) IN
                /\ db' \in UNION {cleanup_excess_samples(o.db, max_items) :
                                      max_items \in MaxItemsChoices}
                /\ sqlite' = o.sqlite /\ bak' = o.bak
           ELSE OpensStore
        /\ UNCHANGED <<lastOp, smartVars, proxyVars, lock, glock, sched, nextPid, streamVars, detectVars>>

\* train_bow_model, line 102: joblib.dump(clf, profile.get_model_path()) completes the
\* live pair; then main() validates it and records the status.
DumpClassifier(s) ==
    LET pr == procs[s]
        path == <<pr.profile, pr.kind>>
    IN  /\ pr.pc = "dump"
        /\ models' = [models EXCEPT ![path] = "valid"]
        /\ Validate(s, "valid", FALSE)
        /\ UNCHANGED <<storeVars, smartVars, proxyVars, lock, glock, sched, nextPid, streamVars, detectVars>>

\* A main() whose release ran only after a training that succeeded.
Release_on_success_only(s) ==
    LET pr == procs[s] IN
    /\ pr.pc = "release"
    /\ IF pr.rc # 0
       THEN UNCHANGED <<lock, glock>>
       ELSE IF pr.kind = "hashlinear"
       THEN glock' = [glock EXCEPT !.holder = 0] /\ UNCHANGED lock
       ELSE lock' = [lock EXCEPT ![pr.profile] = NoLock] /\ UNCHANGED glock
    /\ procs' = [procs EXCEPT ![s] = sys_exit(@, pr.rc)]
    /\ UNCHANGED <<storeVars, smartVars, proxyVars, statusFile, models, sched, nextPid, streamVars, detectVars>>

\* main(), finally: _release_file_lock removes the lock file, whatever it holds;
\* _release_global_lock unlocks.  Then the process exits.
Release(s) ==
    LET pr == procs[s] IN
    /\ pr.pc = "release"
    /\ IF pr.kind = "hashlinear"
       THEN glock' = [glock EXCEPT !.holder = 0] /\ UNCHANGED lock
       ELSE lock' = [lock EXCEPT ![pr.profile] = NoLock] /\ UNCHANGED glock
    /\ procs' = [procs EXCEPT ![s] = sys_exit(@, pr.rc)]
    /\ UNCHANGED <<storeVars, smartVars, proxyVars, statusFile, models, sched, nextPid, streamVars, detectVars>>

\* The process is killed: nothing of main() runs any more.  The kernel drops its
\* flock; a bow trainer killed while joblib.dump writes leaves a partial model file.
Crash(s) ==
    LET pr == procs[s]
        path == <<pr.profile, pr.kind>>
    IN  /\ Running(pr)
        /\ procs' = [procs EXCEPT ![s] = Gone(NoProc, "dead")]
        /\ glock' = IF glock.holder = pr.pid THEN [glock EXCEPT !.holder = 0] ELSE glock
        /\ IF pr.pc \in {"train", "dump"} /\ pr.kind = "bow"
           THEN \E partial \in BOOLEAN :
                   models' = IF partial THEN [models EXCEPT ![path] = "corrupt"] ELSE models
           ELSE UNCHANGED models
        /\ UNCHANGED <<storeVars, smartVars, proxyVars, lock, statusFile, sched, nextPid, streamVars, detectVars>>

\* Thirty minutes pass: the recorded statuses are no longer within the cooldown.
HalfHourPasses ==
    /\ \E p \in Range(ProfileNames) : statusFile[p].fresh
    /\ statusFile' = [p \in Range(ProfileNames) |-> [statusFile[p] EXCEPT !.fresh = FALSE]]
    /\ UNCHANGED <<storeVars, smartVars, proxyVars, lock, glock, models, procs, sched, nextPid, streamVars, detectVars>>

\* stale_seconds (two hours) pass: every stamped lock file is older than that.
TwoHoursPass ==
    /\ \E p \in Range(ProfileNames) : lock[p].stamped /\ ~lock[p].old
    /\ lock' = [p \in Range(ProfileNames) |->
                   IF lock[p].stamped THEN [lock[p] EXCEPT !.old = TRUE] ELSE lock[p]]
    /\ statusFile' = [p \in Range(ProfileNames) |-> [statusFile[p] EXCEPT !.fresh = FALSE]]
    /\ UNCHANGED <<storeVars, smartVars, proxyVars, glock, models, procs, sched, nextPid, streamVars, detectVars>>

\* scheduler_loop: the sleep ends and train_all_profiles lists the profiles.
SchedulerWakes ==
    /\ sched.pc = "sleeping"
    /\ sched' = [pc |-> "check", todo |-> ProfileNames, child |-> 0]
    /\ UNCHANGED <<storeVars, smartVars, proxyVars, lock, glock, statusFile, models, procs,
                   nextPid, streamVars, detectVars>>

\* check_stale_lock up to its os.remove: "absent", "remove" or "valid".
check_stale_lock(l) ==
    IF ~l.present THEN "absent"
    ELSE IF l.stamped /\ l.old THEN "remove"
    ELSE IF l.pid > 0 THEN (IF _is_process_alive(l.pid) THEN "valid" ELSE "remove")
    ELSE "valid"

\* The profile is done: on to the next one, or to sleep after the last.
NextProfile(sc) ==
    IF Len(sc.todo) <= 1 THEN SchedulerSleeping
    ELSE [pc |-> "check", todo |-> Tail(sc.todo), child |-> 0]

\* A cooldown whose comparison with the thirty minutes is reversed.
in_cooldown_after_thirty_minutes(profile) ==
    statusFile[profile].status = "failed" /\ ~statusFile[profile].fresh

\* train_all_profiles, lines 264-270: the last training failed less than thirty
\* minutes ago.
in_cooldown(profile) ==
    statusFile[profile].status = "failed" /\ statusFile[profile].fresh

\* train_all_profiles, lines 252-276: should_train (which opens the store), the
\* cooldown after a failed training, and the trainer subprocess.  The asyncio lock of
\* the profile is free, the loop being the only one to take it.
Consider(profile) ==
    /\ OpensStore
    /\ \E should_train \in BOOLEAN :
          LET cooling == in_cooldown(profile)
          IN  IF should_train /\ ~cooling /\ FreeSlots # {} /\ nextPid <= MaxPid
              THEN \E s \in {t \in Slots : IsFirstFree(t)},
                      enough \in IF _resolve_training_script(profile) = "fasttext"
                                 THEN BOOLEAN ELSE {TRUE} :
                      /\ procs' = [procs EXCEPT ![s] =
                                      Launch(nextPid, ServerPid,
                                             _resolve_training_script(profile), profile,
                                             enough)]
                      /\ sched' = [sched EXCEPT !.pc = "waiting", !.child = s]
                      /\ nextPid' = nextPid + 1
              ELSE /\ sched' = NextProfile(sched)
                   /\ UNCHANGED <<procs, nextPid>>

\* train_all_profiles: check_stale_lock reads the profile's lock file; unless the file
\* is to be removed the loop body goes on to the spawn.
SchedulerChecks ==
    LET profile == Head(sched.todo) IN
    /\ sched.pc = "check"
    /\ IF check_stale_lock(lock[profile]) = "remove"
       THEN /\ sched' = [sched EXCEPT !.pc = "remove"]
            /\ UNCHANGED <<db, sqlite, bak, procs, nextPid>>
       ELSE Consider(profile)
    /\ UNCHANGED <<lastOp, smartVars, proxyVars, lock, glock, statusFile, models, streamVars, detectVars>>

\* check_stale_lock, lines 98 and 114-123: os.remove(lock_path); then the loop body.
SchedulerRemoves ==
    LET profile == Head(sched.todo) IN
    /\ sched.pc = "remove"
    /\ lock' = [lock EXCEPT ![profile] = NoLock]
    /\ Consider(profile)
    /\ UNCHANGED <<lastOp, smartVars, proxyVars, glock, statusFile, models, streamVars, detectVars>>

\* _run_training_subprocess returns: the child has exited or died.
SchedulerReaps ==
    /\ sched.pc = "waiting" /\ ~Running(procs[sched.child])
    /\ sched' = NextProfile(sched)
    /\ UNCHANGED <<storeVars, smartVars, proxyVars, lock, glock, statusFile, models, procs,
                   nextPid, streamVars, detectVars>>

\* _run_training_subprocess, lines 188-190: proc.stdout.readline() raises ValueError on
\* an output line longer than the stream reader's limit; train_all_profiles, line 285,
\* catches it and the loop goes on to the next profile.  The child is not waited for.
SchedulerReadFails ==
    /\ sched.pc = "waiting" /\ Running(procs[sched.child])
    /\ sched' = NextProfile(sched)
    /\ UNCHANGED <<storeVars, smartVars, proxyVars, lock, glock, statusFile, models, procs,
                   nextPid, streamVars, detectVars>>

\* The model files an installation starts with: the hashlinear file may be one that
\* does not load (hashlinear_model._remove_corrupted_model expects such files).
TrainInit ==
    /\ db = NoDb /\ sqlite = NoFile /\ bak = NoFile
    /\ lastOp = [op |-> "none"]
    /\ call = NoCall /\ dbBefore = NoDb
    /\ req = NoRequest
    /\ tr = NoTransformer
    /\ det = NoDetection
    /\ lock = [p \in Range(ProfileNames) |-> NoLock]
    /\ glock = NoGlobalLock
    /\ statusFile = [p \in Range(ProfileNames) |-> NoStatus]
    /\ \E f \in {"absent", "corrupt"} :
          models = [m \in ModelPaths |-> IF m[2] = "hashlinear" THEN f ELSE "absent"]
    /\ procs = [s \in Slots |-> NoProc]
    /\ sched = SchedulerSleeping
    /\ nextPid = ServerPid + 1

TrainNext ==
    \/ \E s \in Slots : StartTrainer(s)
    \/ \E s \in Slots : TryCreate(s)
    \/ \E s \in Slots : WritePayload(s)
    \/ \E s \in Slots : ParseLock(s)
    \/ \E s \in Slots : RemoveStale(s)
    \/ \E s \in Slots : FlockGlobal(s)
    \/ \E s \in Slots : Train(s)
    \/ \E s \in Slots : DumpClassifier(s)
    \/ \E s \in Slots : Release(s)
    \/ \E s \in Slots : Crash(s)
    \/ HalfHourPasses
    \/ TwoHoursPass
    \/ SchedulerWakes
    \/ SchedulerChecks
    \/ SchedulerRemoves
    \/ SchedulerReaps
    \/ SchedulerReadFails

SpecTrain == TrainInit /\ [][TrainNext]_vars

(***************************************************************************)
(* Claims about the training lifecycle, checked under SpecTrain.           *)
(***************************************************************************)
\* The trainers between a successful lock acquisition and their exit.
Holders == {s \in Slots : Running(procs[s]) /\ procs[s].acquired}

\* C6: on one profile, whatever the interleaving of trainers of any model type and of
\* scheduler ticks, stale-lock removal included, at most one trainer is between its
\* successful lock acquisition and its release.
C6_OneTrainerPerProfile ==
    \A p \in Range(ProfileNames) :
        Cardinality({s \in Holders : procs[s].profile = p}) <= 1

\* C7: on the whole node no two trainings run at the same time, whatever their
\* profiles and model types: every trainer that trains holds the global training lock.
C7_OneTrainingPerNode ==
    /\ Cardinality(Holders) <= 1
    /\ \A s \in Holders : glock.holder = procs[s].pid

\* The lock file of a profile was left by a process that is dead, or is older than
\* the staleness threshold.
Orphaned(p) ==
    /\ lock[p].present
    /\ ~_is_process_alive(lock[p].creator) \/ (lock[p].stamped /\ lock[p].old)

\* C8: a scheduler tick whose stale-lock check finds a .train.lock left by a dead
\* trainer, whatever the file holds, or one older than the threshold, removes it.
C8_TickRemovesStaleLock ==
    [][(/\ sched.pc \in {"check", "remove"}
        /\ sched' # sched /\ sched'.pc # "remove"
        /\ Orphaned(Head(sched.todo)))
       => ~lock'[Head(sched.todo)].present]_vars

\* C9: a trainer exits with 0 only after the live model file passed validation (size,
\* load, canary prediction) and the status completed was recorded; it exits with 2
\* exactly when its lock attempt failed.
C9_ExitCodes ==
    \A s \in Slots :
        procs[s].pc = "exited" =>
            /\ procs[s].rc = 0 =>
                  procs[s].validated = "valid" /\ procs[s].recorded = "completed"
            /\ procs[s].rc = 2 <=> procs[s].lock_failed

(***************************************************************************)
(* Stream transcoding (ai_proxy/proxy/stream_transformer.py).              *)
(*                                                                         *)
(* A frame is one SSE event as handle_frame gets it.  Strings that are     *)
(* concatenated (text, tool-call arguments) are sequences of pieces; ids,  *)
(* names and finish reasons are atomic.  Response ids, model names and     *)
(* time stamps are left out: of the metadata only the keys present are     *)
(* kept, which is all emit_start_once reads.  A frame carries at most one  *)
(* tool call or part; a chunk of the upstream is one frame.                *)
(***************************************************************************)
Dialects == {"openai_chat", "openai_responses", "gemini_chat", "claude_chat"}

\* The argument string '{"x":1}' in its two halves, and the string '{}'.
WholeArgs == <<"{x", "1}">>

EmptyArgs == <<"{}">>

\* _safe_json_loads on an argument string: the object it holds, {} when it holds none.
_safe_json_loads(s) == IF s = WholeArgs THEN "obj_x1" ELSE "obj_empty"

\* _json_dumps_compact on an object.
_json_dumps_compact(obj) == IF obj = "obj_x1" THEN WholeArgs ELSE EmptyArgs

\* `x or {}` on an object field: absent and {} are alike.
Truthy(obj) == obj = "obj_x1"

SSEFrame(fmt, kind) ==
    [fmt |-> fmt, kind |-> kind, text |-> <<>>, id |-> "", name |-> "", args |-> <<>>,
     obj |-> "", fin |-> "", idx |-> 0]

\* data: [DONE]
DoneFrame(fmt) == SSEFrame(fmt, "[DONE]")

\* An internal event of _decode_to_internal.
InternalEvent(type, id, name, delta, fin) ==
    [type |-> type, id |-> id, name |-> name, delta |-> delta, fin |-> fin]

\* seen_tool_calls: the key __started__ and the tool calls in insertion order.
NoneSeen == [started |-> FALSE, calls |-> <<>>]

SeenIds(seen) == {seen.calls[i].id : i \in DOMAIN seen.calls}

\* seen_tool_calls.get(call_id, {}).get("name")
SeenName(seen, id) ==
    IF id \in SeenIds(seen)
    THEN (CHOOSE c \in Range(seen.calls) : c.id = id).name
    ELSE ""

\* emit_start_once: the events it appends, and seen_tool_calls afterwards.
emit_start_once(meta, seen) ==
    IF meta # {} /\ ~seen.started
    THEN <<InternalEvent("start", "", "", <<>>, "")>> ELSE <<>>

Started(meta, seen) == IF meta # {} THEN [seen EXCEPT !.started = TRUE] ELSE seen

\* `if call_id and call_id not in seen_tool_calls`: remember the call and announce it.
ToolCallStart(seen, id, name) ==
    IF id # "" /\ id \notin SeenIds(seen)
    THEN <<InternalEvent("tool_call_start", id, name, <<>>, "")>> ELSE <<>>

Remember(seen, id, name) ==
    IF id # "" /\ id \notin SeenIds(seen)
    THEN [seen EXCEPT !.calls = Append(@, [id |-> id, name |-> name])] ELSE seen

ArgsDelta(id, name, delta) == <<InternalEvent("tool_call_args_delta", id, name, delta, "")>>

TextDelta(text) ==
    IF text # <<>> THEN <<InternalEvent("text_delta", "", "", text, "")>> ELSE <<>>

Decoded(outs, meta, seen) == [outs |-> outs, meta |-> meta, seen |-> seen]

\* _decode_to_internal, from_format == "openai_chat"
DecodeOpenAIChat(f, meta, seen) ==
    IF f.kind = "nochoices" THEN Decoded(<<>>, meta, seen)
    ELSE LET meta1 == meta \cup {"id", "model", "created"}
             seen1 == Started(meta1, seen)
         IN  Decoded(emit_start_once(meta1, seen)
                       \o TextDelta(f.text)
                       \o ToolCallStart(seen1, f.id, f.name)
                       \o (IF f.args # <<>> THEN ArgsDelta(f.id, f.name, f.args) ELSE <<>>)
                       \o (IF f.fin # ""
                           THEN <<InternalEvent("final", "", "", <<>>, f.fin),
                                  InternalEvent("done", "", "", <<>>, "")>>
                           ELSE <<>>),
                     meta1, Remember(seen1, f.id, f.name))

\* response.status of a terminal Responses event as a finish reason.
StatusFinish(status) ==
    IF status = "incomplete" THEN "length"
    ELSE IF status = "failed" THEN "error"
    ELSE "stop"

\* _decode_to_internal, from_format == "openai_responses"
DecodeResponses(f, meta, seen) ==
    IF f.kind \in {"response.created", "response.in_progress"}
    THEN LET meta1 == meta \cup {"id", "model", "created_at"}
         IN  Decoded(emit_start_once(meta1, seen), meta1, Started(meta1, seen))
    ELSE IF f.kind = "response.output_text.delta"
    THEN Decoded(TextDelta(f.text), meta, seen)
    ELSE IF f.kind = "response.output_item.added"
    THEN Decoded(ToolCallStart(seen, f.id, f.name), meta, Remember(seen, f.id, f.name))
    ELSE IF f.kind = "response.function_call_arguments.delta"
    THEN LET name == IF f.name # "" THEN f.name ELSE SeenName(seen, f.id)
         IN  Decoded(ToolCallStart(seen, f.id, name)
                       \o (IF f.args # <<>> THEN ArgsDelta(f.id, name, f.args) ELSE <<>>),
                     meta, Remember(seen, f.id, name))
    ELSE IF f.kind = "response.completed"
    THEN Decoded(<<InternalEvent("final", "", "", <<>>, StatusFinish(f.fin)),
                   InternalEvent("done", "", "", <<>>, "")>>, meta, seen)
    ELSE Decoded(<<>>, meta, seen)

\* f"gemini_call_{n}" with n the number of tool calls seen so far
GeminiCallId(seen) == "gemini_call_" \o ToString(Len(seen.calls))

\* _decode_to_internal, from_format == "gemini_chat"
DecodeGemini(f, meta, seen) ==
    IF f.kind = "nocandidates" THEN Decoded(<<>>, meta, seen)
    ELSE LET meta1 == meta \cup {"id", "model"}
             seen1 == Started(meta1, seen)
             call_id == IF f.id # "" THEN f.id ELSE GeminiCallId(seen1)
         IN  IF f.kind = "functionCall"
             THEN Decoded(emit_start_once(meta1, seen)
                            \o ToolCallStart(seen1, call_id, f.name)
                            \o ArgsDelta(call_id, f.name,
                                         _json_dumps_compact(IF Truthy(f.obj) THEN f.obj
                                                             ELSE "obj_empty")),
                          meta1, Remember(seen1, call_id, f.name))
             ELSE Decoded(emit_start_once(meta1, seen) \o TextDelta(f.text), meta1, seen1)

\* The tool call input_json_delta belongs to: the last one seen.
LastTool(seen) == IF seen.calls = <<>> THEN "" ELSE seen.calls[Len(seen.calls)].id

\* _decode_to_internal, from_format == "claude_chat"
DecodeClaude(f, meta, seen) ==
    IF f.kind = "message_start"
    THEN LET meta1 == meta \cup {"id", "model"}
         IN  Decoded(emit_start_once(meta1, seen), meta1, Started(meta1, seen))
    ELSE IF f.kind = "content_block_start.tool_use"
    THEN Decoded(ToolCallStart(seen, f.id, f.name)
                   \o (IF Truthy(f.obj)
                       THEN ArgsDelta(f.id, f.name, _json_dumps_compact(f.obj)) ELSE <<>>),
                 meta, Remember(seen, f.id, f.name))
    ELSE IF f.kind = "content_block_delta.text_delta"
    THEN Decoded(TextDelta(f.text), meta, seen)
    ELSE IF f.kind = "content_block_delta.input_json_delta"
    THEN Decoded(IF LastTool(seen) # ""
                 THEN ArgsDelta(LastTool(seen), SeenName(seen, LastTool(seen)), f.args)
                 ELSE <<>>, meta, seen)
    ELSE IF f.kind = "message_delta"
    THEN Decoded(<<InternalEvent("final", "", "", <<>>, f.fin)>>, meta, seen)
    ELSE IF f.kind = "message_stop"
    THEN Decoded(<<InternalEvent("done", "", "", <<>>, "")>>, meta, seen)
    ELSE Decoded(<<>>, meta, seen)

_decode_to_internal(from_format, f, meta, seen) ==
    IF from_format = "openai_chat" THEN DecodeOpenAIChat(f, meta, seen)
    ELSE IF from_format = "openai_responses" THEN DecodeResponses(f, meta, seen)
    ELSE IF from_format = "gemini_chat" THEN DecodeGemini(f, meta, seen)
    ELSE IF from_format = "claude_chat" THEN DecodeClaude(f, meta, seen)
    ELSE Decoded(<<>>, meta, seen)

\* A dict kept in insertion order, as a sequence of [k, v].
DictHas(d, k) == \E i \in DOMAIN d : d[i].k = k

DictGet(d, k, default) ==
    IF DictHas(d, k) THEN d[CHOOSE i \in DOMAIN d : d[i].k = k].v ELSE default

DictPut(d, k, v) ==
    IF DictHas(d, k)
    THEN [i \in DOMAIN d |-> IF d[i].k = k THEN [k |-> k, v |-> v] ELSE d[i]]
    ELSE Append(d, [k |-> k, v |-> v])

\* The fields of the four sinks: role_sent / started, tool_args_buffers, tool_names,
\* open_blocks and next_block_index.
_create_sink ==
    [opened |-> FALSE, bufs |-> <<>>, names |-> <<>>, open_blocks |-> <<>>,
     next_block_index |-> 0]

Sunk(sink, outs) == [sink |-> sink, outs |-> outs]

\* The frames that open a stream of the target dialect.
OpeningFrames(to) ==
    IF to = "openai_chat" THEN <<SSEFrame(to, "role")>>
    ELSE IF to = "openai_responses"
    THEN <<SSEFrame(to, "response.created"), SSEFrame(to, "response.in_progress")>>
    ELSE IF to = "claude_chat" THEN <<SSEFrame(to, "message_start")>>
    ELSE <<>>

\* on_start of a sink that does not look at its role_sent / created_sent / started flag
on_start_resends(to, sink) ==
    IF to = "gemini_chat" THEN Sunk(sink, <<>>)
    ELSE Sunk([sink EXCEPT !.opened = TRUE], OpeningFrames(to))

\* on_start of the sink of dialect `to`
on_start(to, sink) ==
    IF to = "gemini_chat" \/ sink.opened THEN Sunk(sink, <<>>)
    ELSE Sunk([sink EXCEPT !.opened = TRUE], OpeningFrames(to))

\* _ClaudeSink: the index of the first open block of a type (and tool call)
BlockIndex(sink, type, id) ==
    LET hits == {i \in DOMAIN sink.open_blocks :
                    sink.open_blocks[i].type = type /\ sink.open_blocks[i].id = id}
    IN  IF hits = {} THEN -1
        ELSE sink.open_blocks[CHOOSE i \in hits : \A j \in hits : i <= j].idx

\* _ClaudeSink: a block is opened under the next index
OpenBlock(sink, type, id, name) ==
    Sunk([sink EXCEPT !.open_blocks = Append(@, [idx |-> sink.next_block_index,
                                                  type |-> type, id |-> id]),
                      !.next_block_index = @ + 1],
         <<[SSEFrame("claude_chat", "content_block_start." \o type)
               EXCEPT !.id = id, !.name = name, !.idx = sink.next_block_index]>>)

\* _ClaudeSink._ensure_text_block
_ensure_text_block(sink) ==
    IF BlockIndex(sink, "text", "") # -1 THEN Sunk(sink, <<>>)
    ELSE OpenBlock(sink, "text", "", "")

\* on_text_delta of the sink of dialect `to`
on_text_delta(to, sink, text) ==
    IF text = <<>> THEN Sunk(sink, <<>>)
    ELSE IF to = "openai_chat"
    THEN Sunk(sink, <<[SSEFrame(to, "delta") EXCEPT !.text = text]>>)
    ELSE IF to = "openai_responses"
    THEN Sunk(sink, <<[SSEFrame(to, "response.output_text.delta") EXCEPT !.text = text]>>)
    ELSE IF to = "gemini_chat"
    THEN Sunk(sink, <<[SSEFrame(to, "text") EXCEPT !.text = text]>>)
    ELSE LET b == _ensure_text_block(sink)
         IN  Sunk(b.sink,
                  b.outs \o <<[SSEFrame(to, "content_block_delta.text_delta")
                                  EXCEPT !.text = text,
                                         !.idx = BlockIndex(b.sink, "text", "")]>>)

\* on_tool_call_start of the sink of dialect `to`
on_tool_call_start(to, sink, call_id, name) ==
    IF to = "openai_chat"
    THEN IF call_id = "" /\ name = "" THEN Sunk(sink, <<>>)
         ELSE Sunk(sink, <<[SSEFrame(to, "delta") EXCEPT !.id = call_id, !.name = name]>>)
    ELSE IF to = "openai_responses"
    THEN Sunk(sink, <<[SSEFrame(to, "response.output_item.added")
                          EXCEPT !.id = call_id, !.name = name]>>)
    ELSE IF call_id = "" THEN Sunk(sink, <<>>)
    ELSE IF to = "gemini_chat"
    THEN Sunk([sink EXCEPT !.bufs = IF DictHas(@, call_id) THEN @
                                    ELSE DictPut(@, call_id, <<>>),
                           !.names = DictPut(@, call_id, name)], <<>>)
    ELSE LET b == OpenBlock(sink, "tool_use", call_id, name)
         IN  Sunk([b.sink EXCEPT !.names = DictPut(@, call_id, name)], b.outs)

\* _GeminiSink.on_tool_call_args_delta
GeminiArgsDelta(sink, call_id, name, delta) ==
    IF call_id = "" THEN Sunk(sink, <<>>)
    ELSE LET buf == DictGet(sink.bufs, call_id, <<>>) \o delta
             nm == IF name # "" THEN name ELSE DictGet(sink.names, call_id, "")
             args_obj == _safe_json_loads(buf)
             named == [sink EXCEPT !.names = DictPut(@, call_id, nm)]
         IN  IF ~Truthy(args_obj)
             THEN Sunk([named EXCEPT !.bufs = DictPut(@, call_id, buf)], <<>>)
             ELSE Sunk([named EXCEPT !.bufs = DictPut(@, call_id, <<>>)],
                       <<[SSEFrame("gemini_chat", "functionCall")
                             EXCEPT !.id = call_id, !.name = nm, !.obj = args_obj]>>)

\* _ClaudeSink.on_tool_call_args_delta
ClaudeArgsDelta(sink, call_id, name, delta) ==
    IF call_id = "" \/ delta = <<>> THEN Sunk(sink, <<>>)
    ELSE LET nm == IF name # "" THEN name ELSE DictGet(sink.names, call_id, "")
             named == [sink EXCEPT !.names = DictPut(@, call_id, nm)]
             b == IF BlockIndex(named, "tool_use", call_id) = -1
                  THEN on_tool_call_start("claude_chat", named, call_id, nm)
                  ELSE Sunk(named, <<>>)
         IN  Sunk(b.sink,
                  b.outs \o <<[SSEFrame("claude_chat", "content_block_delta.input_json_delta")
                                  EXCEPT !.args = delta,
                                         !.idx = BlockIndex(b.sink, "tool_use", call_id)]>>)

\* on_tool_call_args_delta of the sink of dialect `to`
on_tool_call_args_delta(to, sink, call_id, name, delta) ==
    IF to = "gemini_chat" THEN GeminiArgsDelta(sink, call_id, name, delta)
    ELSE IF to = "claude_chat" THEN ClaudeArgsDelta(sink, call_id, name, delta)
    ELSE IF delta = <<>> THEN Sunk(sink, <<>>)
    ELSE IF to = "openai_chat"
    THEN Sunk(sink, <<[SSEFrame(to, "delta")
                          EXCEPT !.id = call_id, !.name = name, !.args = delta]>>)
    ELSE Sunk(sink, <<[SSEFrame(to, "response.function_call_arguments.delta")
                          EXCEPT !.id = call_id, !.name = name, !.args = delta]>>)

\* _ResponsesSink.on_final: the status of a finish reason
FinishStatus(finish_reason) ==
    IF finish_reason = "length" THEN "incomplete"
    ELSE IF finish_reason = "error" THEN "failed"
    ELSE "completed"

\* on_final of the sink of dialect `to`
on_final(to, sink, finish_reason) ==
    IF to = "openai_chat"
    THEN Sunk(sink, <<[SSEFrame(to, "delta") EXCEPT !.fin = finish_reason]>>)
    ELSE IF to = "openai_responses"
    THEN Sunk(sink, <<[SSEFrame(to, "response.completed")
                          EXCEPT !.fin = FinishStatus(finish_reason)]>>)
    ELSE IF to = "gemini_chat" THEN Sunk(sink, <<>>)
    ELSE Sunk([sink EXCEPT !.open_blocks = <<>>],
              [i \in DOMAIN sink.open_blocks |->
                  [SSEFrame(to, "content_block_stop") EXCEPT !.idx = sink.open_blocks[i].idx]]
              \o <<[SSEFrame(to, "message_delta")
                       EXCEPT !.fin = IF finish_reason = "" THEN "end_turn"
                                      ELSE finish_reason],
                   SSEFrame(to, "message_stop")>>)

\* on_done of every sink
on_done(to) == <<DoneFrame(to)>>

\* _GeminiSink.flush over the snapshot list(self.tool_args_buffers.items())
RECURSIVE GeminiFlush(_, _)
GeminiFlush(acc, items) ==
    IF items = <<>> THEN acc
    ELSE LET b == Head(items).v
             r == IF b # <<>> /\ Truthy(_safe_json_loads(b))
                  THEN GeminiArgsDelta(acc.sink, Head(items).k,
                                       DictGet(acc.sink.names, Head(items).k, ""), b)
                  ELSE Sunk(acc.sink, <<>>)
         IN  GeminiFlush(Sunk(r.sink, acc.outs \o r.outs), Tail(items))

\* flush of the sink of dialect `to`
flush(to, sink) ==
    IF to = "gemini_chat" THEN GeminiFlush(Sunk(sink, <<>>), sink.bufs)
    ELSE Sunk(sink, <<>>)

\* _StreamTranscoder.handle_event: one turn of `for ie in internal_events`.
\* t carries started, sink and the frames produced so far.
HandleInternal(to, t, ie) ==
    LET opened == IF ie.type # "done" /\ ~t.started
                  THEN on_start(to, t.sink) ELSE Sunk(t.sink, <<>>)
        s == IF ie.type = "start" THEN on_start(to, t.sink)
             ELSE IF ie.type = "text_delta" THEN on_text_delta(to, opened.sink, ie.delta)
             ELSE IF ie.type = "tool_call_start"
             THEN on_tool_call_start(to, opened.sink, ie.id, ie.name)
             ELSE IF ie.type = "tool_call_args_delta"
             THEN on_tool_call_args_delta(to, opened.sink, ie.id, ie.name, ie.delta)
             ELSE IF ie.type = "final" THEN on_final(to, opened.sink, ie.fin)
             ELSE Sunk(t.sink, on_done(to))
    IN  [started |-> t.started \/ ie.type # "done",
         sink |-> s.sink,
         outs |-> t.outs \o (IF ie.type = "start" THEN <<>> ELSE opened.outs) \o s.outs]

RECURSIVE HandleInternals(_, _, _)
HandleInternals(to, t, ies) ==
    IF ies = <<>> THEN t
    ELSE HandleInternals(to, HandleInternal(to, t, Head(ies)), Tail(ies))

\* BaseSSEAdapter.handle_frame on a _StreamTranscoder x: the transcoder afterwards,
\* with the frames it returned appended to x.out.
handle_frame(x, f) ==
    IF f.kind = "junk" THEN x
    ELSE IF f.kind = "[DONE]" THEN [x EXCEPT !.out = @ \o on_done(x.to)]
    ELSE LET d == _decode_to_internal(x.from, f, x.meta, x.seen)
             t == HandleInternals(x.to,
                                  [started |-> x.started, sink |-> x.sink, outs |-> <<>>],
                                  d.outs)
         IN  [x EXCEPT !.meta = d.meta, !.seen = d.seen, !.started = t.started,
                       !.sink = t.sink, !.out = @ \o t.outs]

\* create_stream_transformer: None for equal or unsupported dialects.
create_stream_transformer(from_format, to_format) ==
    IF from_format = "" \/ to_format = "" \/ from_format = to_format THEN NoTransformer
    ELSE IF from_format \notin Dialects \/ to_format \notin Dialects THEN NoTransformer
    ELSE [stage |-> "open", from |-> from_format, to |-> to_format, started |-> FALSE,
          meta |-> {}, seen |-> NoneSeen, sink |-> _create_sink, inp |-> <<>>,
          out |-> <<>>]

\* The frames an upstream of each dialect sends.
Call(fmt, kind, id, name, args) ==
    [SSEFrame(fmt, kind) EXCEPT !.id = id, !.name = name, !.args = args]

Text(fmt, kind, text) == [SSEFrame(fmt, kind) EXCEPT !.text = text]

OpenAIChatFrames ==
    LET fmt == "openai_chat" IN
    {SSEFrame(fmt, "role"), SSEFrame(fmt, "nochoices"), SSEFrame(fmt, "junk"),
     DoneFrame(fmt), [SSEFrame(fmt, "delta") EXCEPT !.fin = "stop"],
     Text(fmt, "delta", <<"h">>), Text(fmt, "delta", <<"i">>),
     Call(fmt, "delta", "c1", "f", <<>>), Call(fmt, "delta", "c1", "f", WholeArgs),
     Call(fmt, "delta", "c1", "f", <<"{x">>), Call(fmt, "delta", "", "", <<"1}">>),
     Call(fmt, "delta", "c1", "f", EmptyArgs), Call(fmt, "delta", "c2", "f", WholeArgs)}

ResponsesFrames ==
    LET fmt == "openai_responses"
        delta == "response.function_call_arguments.delta"
    IN
    {SSEFrame(fmt, "response.created"), SSEFrame(fmt, "response.in_progress"),
     SSEFrame(fmt, "junk"), DoneFrame(fmt),
     [SSEFrame(fmt, "response.completed") EXCEPT !.fin = "completed"],
     Text(fmt, "response.output_text.delta", <<"h">>),
     Text(fmt, "response.output_text.delta", <<"i">>),
     Call(fmt, "response.output_item.added", "c1", "f", <<>>),
     Call(fmt, delta, "c1", "f", <<"{x">>), Call(fmt, delta, "c1", "", <<"1}">>),
     Call(fmt, delta, "c1", "f", WholeArgs), Call(fmt, delta, "c2", "f", <<"{x">>)}

FunctionCall(id, name, obj) ==
    [SSEFrame("gemini_chat", "functionCall") EXCEPT !.id = id, !.name = name, !.obj = obj]

GeminiFrames ==
    LET fmt == "gemini_chat" IN
    {SSEFrame(fmt, "nocandidates"), SSEFrame(fmt, "junk"), DoneFrame(fmt),
     Text(fmt, "text", <<"h">>), Text(fmt, "text", <<"i">>),
     FunctionCall("c1", "f", "obj_x1"), FunctionCall("c2", "f", "obj_x1"),
     FunctionCall("", "f", "obj_x1"), FunctionCall("c1", "f", "obj_empty")}

ClaudeFrames ==
    LET fmt == "claude_chat"
        json == "content_block_delta.input_json_delta"
    IN
    {SSEFrame(fmt, "message_start"), SSEFrame(fmt, "junk"),
     SSEFrame(fmt, "content_block_start.text"), SSEFrame(fmt, "content_block_stop"),
     [SSEFrame(fmt, "message_delta") EXCEPT !.fin = "end_turn"],
     SSEFrame(fmt, "message_stop"),
     Text(fmt, "content_block_delta.text_delta", <<"h">>),
     Text(fmt, "content_block_delta.text_delta", <<"i">>),
     Call(fmt, "content_block_start.tool_use", "c1", "f", <<>>),
     Call(fmt, "content_block_start.tool_use", "c2", "f", <<>>),
     Call(fmt, json, "", "", <<"{x">>), Call(fmt, json, "", "", <<"1}">>),
     Call(fmt, json, "", "", WholeArgs)}

SourceFrames(fmt) ==
    IF fmt = "openai_chat" THEN OpenAIChatFrames
    ELSE IF fmt = "openai_responses" THEN ResponsesFrames
    ELSE IF fmt = "gemini_chat" THEN GeminiFrames
    ELSE ClaudeFrames

\* The dialect names callers pass: the four streaming ones and one without a transcoder.
FormatNames == Dialects \cup {"openai_codex"}

MaxFrames == 3

StreamInit ==
    /\ db = NoDb /\ sqlite = NoFile /\ bak = NoFile
    /\ lastOp = [op |-> "none"]
    /\ call = NoCall /\ dbBefore = NoDb
    /\ req = NoRequest
    /\ tr = NoTransformer
    /\ det = NoDetection
    /\ TrainingIdle

\* A caller asks for the transformer of an upstream response.
CreateTransformer ==
    /\ tr.stage \in {"none", "flushed"}
    /\ \E from_format \in FormatNames, to_format \in FormatNames :
           tr' = create_stream_transformer(from_format, to_format)
    /\ UNCHANGED <<storeVars, smartVars, proxyVars, trainVars, detectVars>>

\* SSEBufferTransformer.feed with a chunk that holds one frame.
Feed ==
    /\ tr.stage = "open" /\ Len(tr.inp) < MaxFrames
    /\ \E f \in SourceFrames(tr.from) :
           tr' = handle_frame([tr EXCEPT !.inp = Append(@, f)], f)
    /\ UNCHANGED <<storeVars, smartVars, proxyVars, trainVars, detectVars>>

\* SSEBufferTransformer.flush at the end of the upstream response.
Flush ==
    /\ tr.stage = "open"
    /\ LET r == flush(tr.to, tr.sink)
       IN  tr' = [tr EXCEPT !.stage = "flushed", !.sink = r.sink, !.out = @ \o r.outs]
    /\ UNCHANGED <<storeVars, smartVars, proxyVars, trainVars, detectVars>>

StreamNext == CreateTransformer \/ Feed \/ Flush

SpecStream == StreamInit /\ [][StreamNext]_vars

(***************************************************************************)
(* The request side of the dialect bridge: the decoders and encoders of    *)
(* transform/formats/openai_chat.py and gemini_chat.py.  A key a body does *)
(* not have is None; the arguments of a tool call are a JSON string in     *)
(* OpenAI Chat and a parsed object elsewhere.                              *)
(***************************************************************************)
\* json.loads of an arguments string, {} when it does not parse.
loads_arguments(args_str) ==
    IF args_str \in {"{\"x\":1}", "{\"x\": 1}"} THEN "obj_x1" ELSE "obj_empty"

\* json.dumps(arguments, ensure_ascii=False)
dumps_arguments(obj) == IF obj = "obj_x1" THEN "{\"x\": 1}" ELSE "{}"

InternalToolCall(id, name, arguments) == [id |-> id, name |-> name, arguments |-> arguments]

InternalToolResult(call_id, name, output) == [call_id |-> call_id, name |-> name, output |-> output]

NoToolCall == InternalToolCall(None, None, None)

NoToolResult == InternalToolResult(None, None, None)

InternalContentBlock(type, text, tool_call, tool_result) ==
    [type |-> type, text |-> text, tool_call |-> tool_call, tool_result |-> tool_result]

TextBlock(text) == InternalContentBlock("text", text, NoToolCall, NoToolResult)

InternalMessage(role, content) == [role |-> role, content |-> content]

InternalChatRequest(messages, model, stream, tools, tool_choice) ==
    [messages |-> messages, model |-> model, stream |-> stream, tools |-> tools,
     tool_choice |-> tool_choice]

\* from_openai_chat: the blocks of one message.
ChatBlocks(msg) ==
    LET text == IF msg.content # None /\ msg.content # ""
                THEN <<TextBlock(msg.content)>> ELSE <<>>
        result == IF msg.role = "tool"
                  THEN <<InternalContentBlock("tool_result", None, NoToolCall,
                             InternalToolResult(IF msg.tool_call_id = None THEN ""
                                                ELSE msg.tool_call_id,
                                                msg.name,
                                                IF msg.content = None THEN ""
                                                ELSE msg.content))>>
                  ELSE <<>>
        calls == [i \in DOMAIN msg.tool_calls |->
                     InternalContentBlock("tool_call", None,
                         InternalToolCall(msg.tool_calls[i].id, msg.tool_calls[i].name,
                                          loads_arguments(msg.tool_calls[i].arguments)),
                         NoToolResult)]
        blocks == text \o result \o calls
    IN  IF blocks = <<>> THEN <<TextBlock("")>> ELSE blocks

from_openai_chat(body) ==
    InternalChatRequest(
        [i \in DOMAIN body.messages |->
            InternalMessage(IF body.messages[i].role = None THEN "user"
                            ELSE body.messages[i].role,
                            ChatBlocks(body.messages[i]))],
        IF body.model = None THEN "" ELSE body.model,
        IF body.stream = None THEN "False" ELSE body.stream,
        body.tools,
        body.tool_choice)

ChatMessage(role, content, tool_calls, tool_call_id, name) ==
    [role |-> role, content |-> content, tool_calls |-> tool_calls,
     tool_call_id |-> tool_call_id, name |-> name]

\* "\n".join(texts)
RECURSIVE JoinLines(_)
JoinLines(texts) ==
    IF texts = <<>> THEN ""
    ELSE IF Tail(texts) = <<>> THEN Head(texts)
    ELSE Head(texts) \o "\n" \o JoinLines(Tail(texts))

\* The texts of the non-empty text blocks of a message.
TextsOf(m) ==
    LET blocks == SelectSeq(m.content, LAMBDA b : b.type = "text" /\ b.text # "")
    IN  [i \in DOMAIN blocks |-> blocks[i].text]

\* to_openai_chat: the messages one internal message becomes.
ChatMessagesOf(m) ==
    LET text_blocks == TextsOf(m)
        calls == SelectSeq(m.content, LAMBDA b : b.type = "tool_call")
        results == SelectSeq(m.content, LAMBDA b : b.type = "tool_result")
        own == IF m.role = "tool" THEN <<>>
               ELSE <<ChatMessage(m.role,
                          IF text_blocks # <<>> THEN JoinLines(text_blocks)
                          ELSE IF calls = <<>> THEN "" ELSE None,
                          [i \in DOMAIN calls |->
                              [id |-> calls[i].tool_call.id,
                               name |-> calls[i].tool_call.name,
                               arguments |-> dumps_arguments(calls[i].tool_call.arguments)]],
                          None, None)>>
    IN  own \o [i \in DOMAIN results |->
                   ChatMessage("tool",
                               IF results[i].tool_result.output \in {"obj_x1", "obj_empty"}
                               THEN dumps_arguments(results[i].tool_result.output)
                               ELSE results[i].tool_result.output,
                               <<>>,
                               results[i].tool_result.call_id,
                               results[i].tool_result.name)]

RECURSIVE Flatten(_)
Flatten(seqs) == IF seqs = <<>> THEN <<>> ELSE Head(seqs) \o Flatten(Tail(seqs))

ChatBody(model, messages, stream, tools, tool_choice) ==
    [model |-> model, messages |-> messages, stream |-> stream, tools |-> tools,
     tool_choice |-> tool_choice]

to_openai_chat(r) ==
    ChatBody(r.model,
             Flatten([i \in DOMAIN r.messages |-> ChatMessagesOf(r.messages[i])]),
             r.stream, r.tools, r.tool_choice)

Part(kind, text, id, name, obj) ==
    [kind |-> kind, text |-> text, id |-> id, name |-> name, obj |-> obj]

\* from_gemini_chat: the block of one part.
GeminiBlock(part) ==
    IF part.kind = "text" THEN TextBlock(part.text)
    ELSE IF part.kind = "functionCall"
    THEN InternalContentBlock("tool_call", None,
                              InternalToolCall(part.id, part.name, part.obj), NoToolResult)
    ELSE InternalContentBlock("tool_result", None, NoToolCall,
                              InternalToolResult(part.id, part.name, part.obj))

GeminiBody(contents, systemInstruction, tools, toolConfig, model) ==
    [contents |-> contents, systemInstruction |-> systemInstruction, tools |-> tools,
     toolConfig |-> toolConfig, model |-> model]

\* from_gemini_chat(body), as the parser calls it: without the path.
from_gemini_chat(body) ==
    InternalChatRequest(
        [i \in DOMAIN body.contents |->
            LET c == body.contents[i]
                blocks == [j \in DOMAIN c.parts |-> GeminiBlock(c.parts[j])]
            IN  InternalMessage(IF c.role = "model" THEN "assistant" ELSE c.role,
                                IF blocks = <<>> THEN <<TextBlock("")>> ELSE blocks)],
        IF body.model = None THEN "gemini-2.5-flash" ELSE body.model,
        "False",
        body.tools,
        body.toolConfig)

\* to_gemini_chat: the parts of one block, none for an empty text.
GeminiParts(b) ==
    IF b.type = "text"
    THEN (IF b.text # "" THEN <<Part("text", b.text, None, None, None)>> ELSE <<>>)
    ELSE IF b.type = "tool_call"
    THEN <<Part("functionCall", None, b.tool_call.id, b.tool_call.name,
                b.tool_call.arguments)>>
    ELSE <<Part("functionResponse", None, b.tool_result.call_id, b.tool_result.name,
                b.tool_result.output)>>

to_gemini_chat(r) ==
    LET others == SelectSeq(r.messages, LAMBDA m : m.role # "system")
        contents == [i \in DOMAIN others |->
                        [role |-> IF others[i].role = "assistant" THEN "model"
                                  ELSE others[i].role,
                         parts |-> Flatten([j \in DOMAIN others[i].content |->
                                               GeminiParts(others[i].content[j])])]]
        systems == SelectSeq(r.messages, LAMBDA m : m.role = "system")
        system_texts == Flatten([i \in DOMAIN systems |-> TextsOf(systems[i])])
    IN  GeminiBody(SelectSeq(contents, LAMBDA c : c.parts # <<>>),
                   IF system_texts = <<>> THEN None ELSE JoinLines(system_texts),
                   r.tools, r.tool_choice, None)

BridgeDialects == {"openai_chat", "gemini_chat"}

parser_decode(name, body) ==
    IF name = "openai_chat" THEN from_openai_chat(body) ELSE from_gemini_chat(body)

parser_to_format(name, r) ==
    IF name = "openai_chat" THEN to_openai_chat(r) ELSE to_gemini_chat(r)

\* The messages of the OpenAI Chat bodies.
ChatMessages ==
    {ChatMessage("user", "hi", <<>>, None, None),
     ChatMessage("system", "s", <<>>, None, None),
     ChatMessage("assistant", None,
                 <<[id |-> "c1", name |-> "f", arguments |-> "{\"x\":1}"]>>, None, None),
     ChatMessage("tool", "ok", <<>>, "c1", None)}

MaxMessages == 2

SeqsUpTo(S, n) == UNION {[1..k -> S] : k \in 1..n}

ChatBodies ==
    {ChatBody(model, messages, stream, tools, tool_choice) :
        model \in {None, "gpt-4"}, messages \in SeqsUpTo(ChatMessages, MaxMessages),
        stream \in {None, "True"}, tools \in {<<>>, <<"f">>}, tool_choice \in {None, "auto"}}

GeminiContents ==
    {[role |-> "user", parts |-> <<Part("text", "hi", None, None, None)>>],
     [role |-> "user", parts |-> <<Part("text", "a", None, None, None),
                                   Part("text", "b", None, None, None)>>],
     [role |-> "model", parts |-> <<Part("functionCall", None, "c1", "f", "obj_x1")>>],
     [role |-> "user", parts |-> <<Part("functionResponse", None, "c1", "f", "obj_x1")>>]}

GeminiBodies ==
    {GeminiBody(contents, None, tools, toolConfig, None) :
        contents \in SeqsUpTo(GeminiContents, MaxMessages),
        tools \in {<<>>, <<"f">>}, toolConfig \in {None, "auto"}}

BridgeBodies(name) == IF name = "openai_chat" THEN ChatBodies ELSE GeminiBodies

BridgeInit ==
    /\ db = NoDb /\ sqlite = NoFile /\ bak = NoFile
    /\ lastOp = [op |-> "none"]
    /\ call = NoCall /\ dbBefore = NoDb
    /\ req = NoRequest
    /\ tr = NoTransformer
    /\ det = NoDetection
    /\ TrainingIdle

\* A request body of dialect A is decoded, encoded as dialect B and decoded again.
Transcode ==
    /\ det.stage = "none"
    /\ \E a \in BridgeDialects, b \in BridgeDialects :
       \E body \in BridgeBodies(a) :
           LET internal == parser_decode(a, body)
               encoded == parser_to_format(b, internal)
           IN  det' = [stage |-> "transcoded", from |-> a, to |-> b, internal |-> internal,
                       again |-> parser_decode(b, encoded)]
    /\ UNCHANGED <<storeVars, smartVars, proxyVars, trainVars, streamVars>>

BridgeNext == Transcode

SpecBridge == BridgeInit /\ [][BridgeNext]_vars

(***************************************************************************)
(* Claim about the request side of the dialect bridge, checked under       *)
(* SpecBridge.                                                             *)
(***************************************************************************)
\* C20: a body of dialect A that is decoded, encoded as dialect B and decoded as B is
\* the internal request it was decoded to: the same messages with the same blocks in
\* order, the same tools, model, stream flag and tool_choice.
C20_RequestRoundTrip ==
    det.stage = "transcoded" => det.again = det.internal

(***************************************************************************)
(* Claims about the URL configuration and the dialect bridge of a request, *)
(* checked under SpecProxy.                                                *)
(***************************************************************************)
\* The positions of "$" in the request's cfg_and_upstream.
Dollars == {i \in DOMAIN req.url : req.url[i] = "$"}

FirstDollar == CHOOSE i \in Dollars : \A j \in Dollars : i <= j

\* The config part of the URL is missing or is not URL-encoded JSON.
BadConfig ==
    \/ Dollars = {}
    \/ json_loads(SubSeq(req.url, 1, FirstDollar - 1)).raised

\* What detect_and_parse makes of the request, by the configuration the URL carries.
Detected ==
    detect_and_parse(req.transform.from, req.shape.path, req.shape.headers,
                     req.shape.body, req.transform.strict_parse)

\* The request was stopped by a moderation stage, or its adjudication raised.
StoppedByModeration ==
    \/ req.response.code = "MODERATION_BLOCKED"
    \/ call # NoCall /\ call.stage = "returned" /\ call.outcome = "raise"

\* C15: a request whose target dialect equals its detected source dialect is forwarded
\* upstream with its original body, unless moderation stopped it.
C15_SameDialectPassesThrough ==
    (/\ req.stage \in {"forwarding", "done"} /\ ~BadConfig
     /\ req.transform.enabled /\ Detected[1] # None /\ req.transform.to = Detected[1]
     /\ ~StoppedByModeration) =>
        /\ req.trace # <<>> /\ req.trace[Len(req.trace)] = "upstream"
        /\ req.forwarded = "body"

\* C16: with strict parsing and a fixed from list, a request that none of the listed
\* dialects accepts but an excluded one does is answered with the format-mismatch
\* error naming the detected dialects, and the upstream forwarder is never called.
C16_StrictMismatchRejected ==
    (/\ req.stage \in {"forwarding", "awaiting_ai", "done"} /\ ~BadConfig
     /\ req.transform.enabled /\ req.transform.strict_parse
     /\ req.transform.from.kind = "list"
     /\ TryCandidates(req.transform.from.names, req.shape.path, req.shape.headers,
                      req.shape.body) = <<>>
     /\ detectable_formats(req.transform.from.names, req.shape.path, req.shape.headers,
                           req.shape.body) # <<>>) =>
        /\ req.stage = "done"
        /\ req.response.status = 400
        /\ req.response.message =
               FormatMismatch(detectable_formats(req.transform.from.names, req.shape.path,
                                                 req.shape.headers, req.shape.body))
        /\ \A i \in DOMAIN req.trace : req.trace[i] # "upstream"

\* C18: a URL without "$", or whose part before the first "$" is not URL-encoded JSON,
\* is answered at once with 400 CONFIG_PARSE_ERROR: no moderation stage, no sample
\* write, no upstream call.  Any other URL is split at its first "$" only: all that
\* follows it, further "$" included, is the upstream.
C18_ConfigErrorOrFirstDollarSplit ==
    req.stage # "idle" =>
        IF BadConfig
        THEN /\ req.stage = "done"
             /\ req.response.status = 400 /\ req.response.code = "CONFIG_PARSE_ERROR"
             /\ req.trace = <<>> /\ call = NoCall /\ db = dbBefore
        ELSE /\ req.response.code # "CONFIG_PARSE_ERROR"
             /\ req.upstream = SubSeq(req.url, FirstDollar + 1, Len(req.url))

\* C18 witness: a URL with two "$" was accepted; the second "$" is part of the upstream.
C18_Witness ==
    /\ req.stage = "forwarding"
    /\ Cardinality(Dollars) = 2
    /\ req.upstream = <<"http://up", "$", "x">>

(***************************************************************************)
(* Claims about dialect detection, checked under SpecDetect.               *)
(***************************************************************************)
\* The positions of the configured candidates whose detector accepts the request.
Accepting ==
    LET candidates == Candidates_of(det.config_from)
    IN  {i \in DOMAIN candidates :
            /\ candidates[i] \in Range(PARSERS)
            /\ can_parse(candidates[i], det.path, det.headers, det.body)}

\* Those of them whose decoder also returns.
Decodable ==
    {i \in Accepting :
        ~parser_from_format(Candidates_of(det.config_from)[i], det.body).raised}

\* The format detect_and_parse returns when the first position of `positions` wins.
FirstOf(positions) ==
    IF positions = {} THEN None
    ELSE Candidates_of(det.config_from)[CHOOSE i \in positions :
                                            \A j \in positions : i <= j]

IsDone(f) == f.kind = "[DONE]"

IsOpening(f) == f.kind \in {"role", "response.created", "response.in_progress", "message_start"}

\* The frame a sink writes for the final event.
IsFinal(f) ==
    \/ f.kind \in {"response.completed", "message_delta"}
    \/ f.fmt = "openai_chat" /\ f.kind = "delta" /\ f.fin # ""

\* The upstream signalled completion: a chunk with a finish_reason, a terminal
\* Responses event, or a Claude message_delta.
SignalsCompletion(f) ==
    ~IsDone(f) /\ f.kind # "junk" /\ IsFinal(f)

\* The frame ends the upstream's stream: its terminator, or the event after which the
\* dialect sends nothing but a terminator.
EndsStream(f) ==
    \/ IsDone(f)
    \/ f.kind \in {"response.completed", "message_stop"}
    \/ f.fmt = "openai_chat" /\ f.kind = "delta" /\ f.fin # ""

\* The upstream's stream is one its dialect allows: nothing follows its end but, once,
\* the terminator.
WellFormedSource ==
    /\ tr.stage \in {"open", "flushed"}
    /\ \A i, j \in DOMAIN tr.inp :
           (i < j /\ EndsStream(tr.inp[i])) =>
               /\ j = i + 1 /\ IsDone(tr.inp[j]) /\ ~IsDone(tr.inp[i])

\* C11: the stream written to the client holds the terminator at most once, no frame
\* follows it, and when the upstream signalled completion the final frame of a target
\* that has one precedes the terminator.
C11_TerminatorOnceAndLast ==
    WellFormedSource =>
        /\ \A i \in DOMAIN tr.out : IsDone(tr.out[i]) => i = Len(tr.out)
        /\ ((\E i \in DOMAIN tr.inp : SignalsCompletion(tr.inp[i]))
               /\ tr.to # "gemini_chat" /\ (\E j \in DOMAIN tr.out : IsDone(tr.out[j])))
            => \E i, j \in DOMAIN tr.out :
                   i < j /\ IsFinal(tr.out[i]) /\ IsDone(tr.out[j])

\* The frames written so far, terminators left out.
Written == SelectSeq(tr.out, LAMBDA f : ~IsDone(f))

\* C12: whatever the order of the source events, the opening frames of the target
\* dialect are written at most once, and before every text, tool-call and final frame.
C12_OpeningFramesOnceAndFirst ==
    (tr.stage \in {"open", "flushed"} /\ Written # <<>>) =>
        LET n == Len(OpeningFrames(tr.to)) IN
        /\ Len(Written) >= n
        /\ SubSeq(Written, 1, n) = OpeningFrames(tr.to)
        /\ \A i \in DOMAIN Written : IsOpening(Written[i]) => i <= n

\* C12 witness: a Responses upstream sent text before any metadata event; the client
\* got the role chunk first and once, then the text.
C12_Witness ==
    /\ tr.stage = "open" /\ tr.from = "openai_responses" /\ tr.to = "openai_chat"
    /\ Len(tr.inp) = 2
    /\ tr.inp[1].kind = "response.output_text.delta" /\ tr.inp[2].kind = "response.created"
    /\ Len(tr.out) = 2 /\ tr.out[1].kind = "role" /\ tr.out[2].text = <<"h">>

\* The tool calls of an OpenAI Chat stream as the protocol has them: a chunk with an id
\* opens the call (or goes on with it), a chunk without id carries a further fragment of
\* the arguments of the call before it.
RECURSIVE ChatToolCalls(_, _, _)
ChatToolCalls(frames, calls, current) ==
    IF frames = <<>> THEN calls
    ELSE LET f == Head(frames)
             id == IF f.id # "" THEN f.id ELSE current
         IN  IF f.kind # "delta" \/ id = "" \/ (f.id = "" /\ f.args = <<>>)
             THEN ChatToolCalls(Tail(frames), calls, current)
             ELSE ChatToolCalls(Tail(frames),
                                DictPut(calls, id,
                                        [name |-> IF DictHas(calls, id)
                                                  THEN DictGet(calls, id, <<>>).name
                                                  ELSE f.name,
                                         args |-> (IF DictHas(calls, id)
                                                   THEN DictGet(calls, id, <<>>).args
                                                   ELSE <<>>) \o f.args]),
                                id)

\* C13: an OpenAI Chat stream transcoded to Gemini delivers every tool call whose
\* argument fragments make up the object {"x":1} as exactly one functionCall part with
\* the call's id, name and parsed arguments, before the terminator, in one chunk or
\* split over several.
C13_ToolCallDeliveredOnce ==
    (WellFormedSource /\ tr.stage = "flushed"
        /\ tr.from = "openai_chat" /\ tr.to = "gemini_chat") =>
        LET calls == ChatToolCalls(tr.inp, <<>>, "") IN
        \A c \in DOMAIN calls :
            calls[c].v.args = WholeArgs =>
                LET hits == {i \in DOMAIN tr.out :
                                /\ tr.out[i].kind = "functionCall"
                                /\ tr.out[i].id = calls[c].k}
                IN  /\ Cardinality(hits) = 1
                    /\ \A i \in hits :
                          /\ tr.out[i].name = calls[c].v.name
                          /\ tr.out[i].obj = "obj_x1"
                          /\ \A j \in DOMAIN tr.out : IsDone(tr.out[j]) => i < j

\* Decoding a stream of a dialect: the internal events of its frames, in order.
RECURSIVE InternalEvents(_, _, _, _)
InternalEvents(fmt, frames, meta, seen) ==
    IF frames = <<>> THEN <<>>
    ELSE LET f == Head(frames)
             d == IF f.kind \in {"junk", "[DONE]"} THEN Decoded(<<>>, meta, seen)
                  ELSE _decode_to_internal(fmt, f, meta, seen)
         IN  d.outs \o InternalEvents(fmt, Tail(frames), d.meta, d.seen)

\* The text of a decoded stream: its text deltas in order.
RECURSIVE TextOf(_)
TextOf(ies) ==
    IF ies = <<>> THEN <<>>
    ELSE (IF Head(ies).type = "text_delta" THEN Head(ies).delta ELSE <<>>)
         \o TextOf(Tail(ies))

\* The tool calls of a decoded stream, each with its argument deltas in order.
RECURSIVE ToolCallsOf(_, _)
ToolCallsOf(ies, calls) ==
    IF ies = <<>> THEN calls
    ELSE LET ie == Head(ies) IN
         IF ie.type \in {"tool_call_start", "tool_call_args_delta"}
         THEN ToolCallsOf(Tail(ies),
                          DictPut(calls, ie.id, DictGet(calls, ie.id, <<>>) \o ie.delta))
         ELSE ToolCallsOf(Tail(ies), calls)

\* What a client reconstructs from a stream of a dialect; a whole-object dialect on
\* either side compares parsed arguments, written here in their compact form.
Reconstructed(fmt, frames, parsed) ==
    LET ies == InternalEvents(fmt, frames, {}, NoneSeen)
        calls == ToolCallsOf(ies, <<>>)
    IN  [text |-> TextOf(ies),
         tool_calls |-> {[id |-> calls[i].k,
                          args |-> IF parsed
                                   THEN _json_dumps_compact(_safe_json_loads(calls[i].v))
                                   ELSE calls[i].v] : i \in DOMAIN calls}]

\* A fragment of arguments that names no call comes after the frame that opened one.
FragmentsFollowCalls ==
    \A i \in DOMAIN tr.inp :
        (tr.inp[i].id = "" /\ tr.inp[i].args # <<>>) =>
            \E j \in DOMAIN tr.inp : j < i /\ tr.inp[j].id # ""

\* C14: for every pair of distinct dialects and every source stream, decoding the
\* transcoder's output in the target dialect gives the text of the source, in order,
\* and the tool calls of the source with the same arguments.
C14_TranscodeRoundTrip ==
    (WellFormedSource /\ FragmentsFollowCalls /\ tr.stage = "flushed") =>
        LET parsed == "gemini_chat" \in {tr.from, tr.to}
        IN  Reconstructed(tr.to, tr.out, parsed) = Reconstructed(tr.from, tr.inp, parsed)


(***************************************************************************)
(* The text handed to moderation: transform/extractor.py as                *)
(* process_request calls it, on an OpenAI Chat body whose contents are     *)
(* strings or absent.                                                      *)
(***************************************************************************)
\* extract_text_from_internal: the non-empty text blocks of the user and assistant
\* messages, joined with a newline.
extract_text_from_internal(r) ==
    LET moderated == SelectSeq(r.messages, LAMBDA m : m.role \in {"user", "assistant"})
    IN  JoinLines(Flatten([i \in DOMAIN moderated |-> TextsOf(moderated[i])]))

\* _extract_from_openai_chat: the string contents of every message whose role is not
\* "tool", joined with a newline.
_extract_from_openai_chat(body) ==
    LET kept == SelectSeq(body.messages, LAMBDA msg : msg.role # "tool")
        strings == SelectSeq(kept, LAMBDA msg : msg.content # None)
    IN  JoinLines([i \in DOMAIN strings |-> strings[i].content])

\* extract_text_for_moderation(body, "openai_chat")
extract_text_for_moderation(body, request_format) == _extract_from_openai_chat(body)

\* What detect_and_parse returns for an OpenAI Chat body it detects.
DetectedChat(body) == <<"openai_chat", from_openai_chat(body), None>>

\* process_request up to the text it hands to basic_moderation: with the format
\* transform disabled the body is read as OpenAI Chat; with it enabled the result of
\* detect_and_parse is unpacked and the internal request is read.
ExtractText ==
    /\ det.stage = "none"
    /\ \E enabled \in BOOLEAN, body \in ChatBodies :
           LET d == Unpack2(DetectedChat(body))
           IN  det' = IF ~enabled
                      THEN [stage |-> "moderating", enabled |-> FALSE, body |-> body,
                            text |-> extract_text_for_moderation(body, "openai_chat")]
                      ELSE IF d.raised
                      THEN [stage |-> "raised", enabled |-> TRUE, body |-> body,
                            text |-> None]
                      ELSE [stage |-> "moderating", enabled |-> TRUE, body |-> body,
                            text |-> extract_text_from_internal(d.internal_req)]
    /\ UNCHANGED <<storeVars, smartVars, proxyVars, trainVars, streamVars>>

SpecExtract == BridgeInit /\ [][ExtractText]_vars

\* The text blocks of the user and assistant messages of a body, in message order,
\* joined with a newline.
VisibleText(body) ==
    LET visible == SelectSeq(body.messages,
                             LAMBDA msg : /\ msg.role \in {"user", "assistant"}
                                          /\ msg.content # None /\ msg.content # "")
    IN  JoinLines([i \in DOMAIN visible |-> visible[i].content])

\* C21: whenever a request reaches moderation, with the format transform enabled or
\* disabled, the text handed to moderation is the text of its user and assistant
\* messages in message order joined with a newline, without system text, tool-call
\* arguments or tool-result outputs.
C21_ModerationTextIsVisibleText ==
    det.stage = "moderating" => det.text = VisibleText(det.body)


(***************************************************************************)
(* Claims about the model files, the lock release and the exit paths of    *)
(* the trainers, checked under SpecTrain.                                  *)
(***************************************************************************)
\* C22: the live model file(s) of a profile change only by being replaced, in one
\* step, with a complete model that is valid: whoever reads the live path during a
\* training run finds the previous model or the new valid one, never a partial file or
\* a vectorizer and a classifier that do not belong together.
C22_LiveModelReplacedAtomically ==
    [][\A path \in ModelPaths :
          models'[path] # models[path] => models'[path] = "valid"]_vars


(***************************************************************************)
(* Claim about the encoder of the target dialect, checked under SpecProxy. *)
(***************************************************************************)
\* The request is to be encoded in another dialect than its own, and the encoder of
\* that dialect raises on it.
EncodingFails ==
    /\ req.transform.enabled /\ req.encode_raises
    /\ Detected[1] # None /\ req.transform.to # Detected[1]
    /\ get_parser(req.transform.to) # None

\* A moderation stage rejected the request, or its adjudication raised.
RejectedByStage ==
    \/ /\ req.response.code = "MODERATION_BLOCKED"
       /\ req.response.message # "Format transform error: e"
    \/ call # NoCall /\ call.stage = "returned" /\ call.outcome = "raise"

\* C23: a request that passed moderation and whose encoding into the target dialect
\* fails is not rejected: the upstream forwarder is called with the source body.
C23_EncoderFailureForwardsSource ==
    (/\ req.stage \in {"forwarding", "done"} /\ ~BadConfig
     /\ EncodingFails /\ ~RejectedByStage) =>
        /\ req.trace # <<>> /\ req.trace[Len(req.trace)] = "upstream"
        /\ req.forwarded = "body"


(***************************************************************************)
(* Claim about the sampling of the smart stage, checked under SpecSmart.   *)
(***************************************************************************)
\* A call of smart_moderation follows a call for a profile with the same seed and the
\* same review rate, strictly between 0 and 1.
NextCallOfProfile ==
    /\ call.route \notin {"none", "disabled"} /\ call.stage = "returned"
    /\ call' # call /\ call'.route # "disabled"
    /\ call'.seed = call.seed /\ call'.rate = call.rate
    /\ 0 < call.rate /\ call.rate < 100

\* C24: successive requests of one profile consume successive draws of the process
\* RNG: the draw a request compares with ai_review_rate comes after the draw of the
\* request before it, so that the branch taken is not the same for every request.
C24_SuccessiveDraws ==
    [][NextCallOfProfile => call'.drawn > call.drawn]_vars


(***************************************************************************)
(* Claims about the release of the training locks, checked under SpecTrain.*)
(***************************************************************************)
\* The trainer in slot s, which acquired its lock, exits in this step.
ExitsAfterAcquiring(s) ==
    /\ Running(procs[s]) /\ procs[s].acquired
    /\ procs'[s].pc = "exited"

\* The process pid holds the lock of the profile: the global flock for a hashlinear
\* trainer, for the others a .train.lock it created or stamped with its pid.
HoldsLock(pid, kind, profile, locks, flock) ==
    IF kind = "hashlinear" THEN flock = pid
    ELSE /\ locks[profile].present
         /\ locks[profile].pid = pid \/ locks[profile].creator = pid

\* C25: a trainer that acquired a training lock and exits, with 0 after a validated
\* model or an early return, or with 1 after an exception or a failed validation, no
\* longer holds that lock once it has exited.
C25_LockReleasedOnEveryExit ==
    [][\A s \in Slots :
          ExitsAfterAcquiring(s) =>
              ~HoldsLock(procs[s].pid, procs[s].kind, procs[s].profile, lock', glock'.holder)]_vars

\* C25 witness: a trainer that had acquired its lock has exited with 1 after a failed
\* training, and no lock is held any more.
C25_Witness ==
    /\ \E s \in Slots :
          /\ procs[s].pc = "exited" /\ procs[s].acquired
          /\ procs[s].rc = 1 /\ procs[s].recorded = "failed"
    /\ glock.holder = 0
    /\ \A p \in Range(ProfileNames) : ~lock[p].present


\* The trainer in slot s runs its lock release in this step.
Releases(s) == procs[s].pc = "release" /\ procs'[s].pc = "exited"

\* C26: the lock release of a trainer removes .train.lock only while the trainer owns
\* it: a lock file that another process created, after the trainer's own was reclaimed
\* as stale, is still there after the release.
C26_ReleaseKeepsForeignLock ==
    [][\A s \in Slots :
          (/\ Releases(s) /\ procs[s].kind \in FileLockKinds
           /\ lock[procs[s].profile].present
           /\ ~HoldsLock(procs[s].pid, procs[s].kind, procs[s].profile, lock, glock.holder)) =>
              lock'[procs[s].profile] = lock[procs[s].profile]]_vars


\* The trainer in slot s gives up on its lock in this step and exits with 2.
ExitsWithTwo(s) ==
    /\ Running(procs[s])
    /\ procs'[s].pc = "exited" /\ procs'[s].rc = 2

\* C27: a trainer that exits with 2 because the lock is held has recorded no status,
\* and its lock attempt leaves .train_status.json, the lock files and the model files
\* as they were.
C27_LockSkipChangesNothing ==
    [][\A s \in Slots :
          ExitsWithTwo(s) =>
              /\ procs'[s].recorded = "none"
              /\ statusFile' = statusFile /\ models' = models
              /\ lock' = lock /\ glock' = glock]_vars


\* The training function of the trainer in slot s returns in this step without
\* raising and without changing a model file, as it does when the store holds too few
\* samples or the loading strategy returns none.
ReturnsWithoutModel(s) ==
    /\ procs[s].pc = "train" /\ procs'[s].pc = "release"
    /\ procs'[s].validated # "none"
    /\ models' = models

\* C28: a trainer whose samples fall below the threshold bails with a soft success: it
\* exits with 0 and does not record the status failed, whether or not a model file
\* exists.
C28_TooFewSamplesIsSoftSuccess ==
    [][\A s \in Slots :
          ReturnsWithoutModel(s) =>
              procs'[s].rc = 0 /\ procs'[s].recorded # "failed"]_vars


(***************************************************************************)
(* Claims about the scheduler, checked under SpecTrain.                    *)
(***************************************************************************)
\* The scheduler spawns a trainer for the profile it is looking at in this step.
Spawns ==
    /\ sched.pc \in {"check", "remove"}
    /\ sched'.pc = "waiting"

\* C29: the scheduler spawns no trainer for a profile whose last recorded status, as
\* the tick reads it, is failed and less than thirty minutes old; a failed status that
\* is thirty minutes old or older does not keep a tick from spawning.
C29_NoSpawnDuringCooldown ==
    [][Spawns =>
          ~(/\ statusFile[Head(sched.todo)].status = "failed"
            /\ statusFile[Head(sched.todo)].fresh)]_vars

\* C29 witness: the scheduler has spawned a trainer, which has not got to its lock yet,
\* for a profile whose last training failed thirty minutes ago or earlier.
C29_Witness ==
    /\ sched.pc = "waiting"
    /\ procs[sched.child].pc = "open" /\ procs[sched.child].ppid = ServerPid
    /\ statusFile[Head(sched.todo)].status = "failed"
    /\ ~statusFile[Head(sched.todo)].fresh


\* C30: whatever the local_model_type of a profile, the scheduler decides whether to
\* train it from the min_samples, the retrain interval and the model file of that type,
\* and the trainer it spawns is the script of that type.
C30_OwnVariantTrained ==
    [][Spawns =>
          /\ should_train_variant(Head(sched.todo)) = local_model_type[Head(sched.todo)]
          /\ procs'[sched'.child].kind = local_model_type[Head(sched.todo)]]_vars

(***************************************************************************)
(* The scheduler tick (scheduler.train_all_profiles, scheduler_loop).      *)
(***************************************************************************)
\* The training subprocesses of the scheduler that are alive.
SchedulerChildren == {s \in Slots : Running(procs[s]) /\ procs[s].ppid = ServerPid}

\* The loop body of train_all_profiles ends for the profile at the head of the list.
ProfileDone == sched.pc \in {"check", "remove", "waiting"} /\ sched' = NextProfile(sched)

\* The loop stays with the profile at the head of the list.
ProfileGoesOn ==
    /\ sched.pc \in {"check", "remove"} /\ sched'.pc \in {"remove", "waiting"}
    /\ sched'.todo = sched.todo

\* C31: a tick lists every profile, the profiles are considered once each and in
\* order whatever the trainer's exit code or the exception raised for a profile, the
\* tick ends in the sleep from which the next tick starts, and the scheduler never
\* has two training subprocesses alive.
C31_TickConsidersEveryProfile ==
    /\ [][sched' # sched =>
             \/ sched.pc = "sleeping" /\ sched'.pc = "check" /\ sched'.todo = ProfileNames
             \/ ProfileGoesOn
             \/ ProfileDone]_vars
    /\ [](Cardinality(SchedulerChildren) <= 1)

(***************************************************************************)
(* Claims about the end of a transcoded stream and about the internal      *)
(* events of the decoders, checked under SpecStream.                       *)
(***************************************************************************)
\* A Gemini upstream response as the dialect sends it: candidate chunks and no
\* `data: [DONE]` frame; the upstream has closed and flush() has run.
GeminiStreamClosed ==
    /\ tr.stage = "flushed" /\ tr.from = "gemini_chat"
    /\ \A i \in DOMAIN tr.inp : ~IsDone(tr.inp[i])
    /\ \E i \in DOMAIN tr.inp : tr.inp[i].kind \in {"text", "functionCall"}

\* C32: once the upstream of a Gemini source stream has closed and flush() has run,
\* the stream written to the client holds the terminator of the target dialect.
C32_GeminiStreamTerminated ==
    GeminiStreamClosed => \E i \in DOMAIN tr.out : IsDone(tr.out[i])

\* The internal events the decoder has produced for the frames fed so far.
DecodedSoFar == InternalEvents(tr.from, tr.inp, {}, NoneSeen)

\* C33: in the internal events decoded from a source stream, every
\* tool_call_args_delta carries the id of a tool call for which exactly one
\* tool_call_start was produced earlier in the stream.
C33_ArgsDeltaFollowsItsStart ==
    (WellFormedSource /\ FragmentsFollowCalls) =>
        \A j \in DOMAIN DecodedSoFar :
            DecodedSoFar[j].type = "tool_call_args_delta" =>
                Cardinality({i \in 1..(j - 1) :
                                /\ DecodedSoFar[i].type = "tool_call_start"
                                /\ DecodedSoFar[i].id = DecodedSoFar[j].id}) = 1

\* The frames of a Claude stream that belong to a content block.
IsBlockStart(f) == f.kind \in {"content_block_start.text", "content_block_start.tool_use"}

IsBlockDelta(f) ==
    f.kind \in {"content_block_delta.text_delta", "content_block_delta.input_json_delta"}

IsBlockStop(f) == f.kind = "content_block_stop"

IsBlockFrame(f) == IsBlockStart(f) \/ IsBlockDelta(f) \/ IsBlockStop(f)

\* The positions of the frames of a kind that carry a block index.
BlockFrames(Kind(_), idx) == {i \in DOMAIN tr.out : Kind(tr.out[i]) /\ tr.out[i].idx = idx}

\* The stream the Claude sink has written is a well-formed Claude stream.
ClaudeStreamWellFormed ==
    /\ \A i \in DOMAIN tr.out :
           IsBlockStart(tr.out[i]) =>
               /\ BlockFrames(IsBlockStart, tr.out[i].idx) = {i}
               /\ Cardinality(BlockFrames(IsBlockStop, tr.out[i].idx)) = 1
               /\ \A j \in BlockFrames(IsBlockStop, tr.out[i].idx) :
                      /\ i < j
                      /\ \A k \in DOMAIN tr.out :
                             tr.out[k].kind \in {"message_delta", "message_stop"} => j < k
    /\ \A k \in DOMAIN tr.out :
           IsBlockDelta(tr.out[k]) =>
               /\ \E i \in BlockFrames(IsBlockStart, tr.out[k].idx) : i < k
               /\ \A j \in BlockFrames(IsBlockStop, tr.out[k].idx) : k < j
    /\ \A i, j \in DOMAIN tr.out :
           (tr.out[i].kind = "message_stop" /\ i < j) => ~IsBlockFrame(tr.out[j])

\* The upstream sent its whole response: it signalled completion, or its dialect is
\* Gemini, which has no completion frame.
CompleteSource ==
    \/ tr.from = "gemini_chat" /\ \A i \in DOMAIN tr.inp : ~IsDone(tr.inp[i])
    \/ \E i \in DOMAIN tr.inp : SignalsCompletion(tr.inp[i])

\* C34: the stream the Claude sink has written for a source stream, once the upstream
\* has closed, has unique block indices, deltas only for blocks that are started and
\* not yet stopped, exactly one content_block_stop for every started block, before
\* message_delta and message_stop, and no content-block frame after message_stop.
C34_ClaudeBlocksWellFormed ==
    (WellFormedSource /\ CompleteSource /\ tr.stage = "flushed" /\ tr.to = "claude_chat") =>
        ClaudeStreamWellFormed

(***************************************************************************)
(* The byte buffer of the stream transformer (SSEBufferTransformer.feed    *)
(* and flush), a chunk of the upstream response at a time.  A byte is an   *)
(* ASCII letter, a newline, or one of the two bytes of a two-byte UTF-8    *)
(* character; every line of the stream is a `data:` line whose payload is  *)
(* the line, and the adapter writes the payload of each frame it is        *)
(* handed.                                                                 *)
(***************************************************************************)
LeadByte == "0xC3"

TrailByte == "0xA9"

Newline == "\\n"

Bytes == {"a", Newline, LeadByte, TrailByte}

\* bytes.decode("utf-8", errors=errors); the strict decoder raises UnicodeDecodeError
\* on a lead byte without its trail byte and on a trail byte without its lead byte,
\* the ignoring decoder leaves such bytes out.
RECURSIVE utf8_decode(_, _)
utf8_decode(bytes, errors) ==
    IF bytes = <<>> THEN <<>>
    ELSE IF Head(bytes) = LeadByte /\ Len(bytes) >= 2 /\ bytes[2] = TrailByte
    THEN LET rest == utf8_decode(Tail(Tail(bytes)), errors)
         IN  IF rest = <<"UnicodeDecodeError">> THEN rest ELSE <<"e_acute">> \o rest
    ELSE IF Head(bytes) \in {LeadByte, TrailByte}
    THEN IF errors = "ignore" THEN utf8_decode(Tail(bytes), errors)
         ELSE <<"UnicodeDecodeError">>
    ELSE LET rest == utf8_decode(Tail(bytes), errors)
         IN  IF rest = <<"UnicodeDecodeError">> THEN rest ELSE <<Head(bytes)>> \o rest

\* feed, lines 102-105: the text of a chunk.
ChunkText(chunk) ==
    IF utf8_decode(chunk, "strict") # <<"UnicodeDecodeError">>
    THEN utf8_decode(chunk, "strict")
    ELSE utf8_decode(chunk, "ignore")

\* The index of the first "\n\n" of a buffer, 0 when it has none.
FirstSeparator(buffer) ==
    LET hits == {i \in 1..(Len(buffer) - 1) : buffer[i] = Newline /\ buffer[i + 1] = Newline}
    IN  IF hits = {} THEN 0 ELSE CHOOSE i \in hits : \A j \in hits : i <= j

\* str.splitlines over the newline
RECURSIVE splitlines(_, _)
splitlines(text, line) ==
    IF text = <<>> THEN (IF line = <<>> THEN <<>> ELSE <<line>>)
    ELSE IF Head(text) = Newline THEN <<line>> \o splitlines(Tail(text), <<>>)
    ELSE splitlines(Tail(text), Append(line, Head(text)))

\* "\n".join(data_lines)
RECURSIVE JoinData(_)
JoinData(data_lines) ==
    IF data_lines = <<>> THEN <<>>
    ELSE IF Len(data_lines) = 1 THEN Head(data_lines)
    ELSE Head(data_lines) \o <<Newline>> \o JoinData(Tail(data_lines))

\* _parse_frame followed by adapter.handle_frame: no frame without a data line, else
\* the frame the adapter writes for the data.
FrameOutputs(raw_event) ==
    LET data_lines == SelectSeq(splitlines(raw_event, <<>>), LAMBDA l : l # <<>>)
    IN  IF data_lines = <<>> THEN <<>> ELSE <<JoinData(data_lines)>>

\* feed, lines 110-115: `while "\n\n" in self.buffer`
RECURSIVE DrainBuffer(_, _)
DrainBuffer(buffer, outputs) ==
    LET at == FirstSeparator(buffer) IN
    IF at = 0 THEN [buffer |-> buffer, outputs |-> outputs]
    ELSE DrainBuffer(SubSeq(buffer, at + 2, Len(buffer)),
                     outputs \o FrameOutputs(SubSeq(buffer, 1, at - 1)))

\* SSEBufferTransformer.feed
feed(buffer, chunk) == DrainBuffer(buffer \o ChunkText(chunk), <<>>)

\* str.strip of a text whose only whitespace is the newline
RECURSIVE StripNewlines(_)
StripNewlines(text) ==
    IF text = <<>> THEN <<>>
    ELSE IF Head(text) = Newline THEN StripNewlines(Tail(text))
    ELSE IF text[Len(text)] = Newline THEN StripNewlines(SubSeq(text, 1, Len(text) - 1))
    ELSE text

\* SSEBufferTransformer.flush
flush_buffer(buffer) ==
    LET remaining == StripNewlines(buffer)
    IN  IF remaining # <<>> THEN FrameOutputs(remaining) ELSE <<>>

MaxBytes == 5

\* The upstream responses: the UTF-8 encodings of a text, MaxBytes bytes at most.
UpstreamStreams ==
    {s \in UNION {[1..n -> Bytes] : n \in 1..MaxBytes} :
        utf8_decode(s, "strict") # <<"UnicodeDecodeError">>}

\* The upstream response starts to arrive.
OpenUpstream ==
    /\ tr.stage = "none"
    /\ \E s \in UpstreamStreams :
           tr' = [stage |-> "feeding", stream |-> s, rest |-> s, buffer |-> <<>>,
                  out |-> <<>>, cuts |-> <<>>]
    /\ UNCHANGED <<storeVars, smartVars, proxyVars, trainVars, detectVars>>

\* The next chunk arrives, of any length, and is fed.
FeedChunk ==
    /\ tr.stage = "feeding" /\ tr.rest # <<>>
    /\ \E n \in 1..Len(tr.rest) :
           LET r == feed(tr.buffer, SubSeq(tr.rest, 1, n))
           IN  tr' = [tr EXCEPT !.rest = SubSeq(@, n + 1, Len(@)), !.buffer = r.buffer,
                                !.out = @ \o r.outputs, !.cuts = Append(@, n)]
    /\ UNCHANGED <<storeVars, smartVars, proxyVars, trainVars, detectVars>>

\* The upstream closes: flush().
FlushChunks ==
    /\ tr.stage = "feeding" /\ tr.rest = <<>>
    /\ tr' = [tr EXCEPT !.stage = "closed", !.buffer = <<>>,
                        !.out = @ \o flush_buffer(tr.buffer)]
    /\ UNCHANGED <<storeVars, smartVars, proxyVars, trainVars, detectVars>>

ChunkNext == OpenUpstream \/ FeedChunk \/ FlushChunks

SpecChunks == StreamInit /\ [][ChunkNext]_vars

\* The output for a stream that arrives as one chunk.
OneChunkOutput(stream) ==
    LET r == feed(<<>>, stream) IN r.outputs \o flush_buffer(r.buffer)

\* C35: however the bytes of the upstream response are cut into chunks, the outputs
\* of the feed() calls followed by that of flush() are those of the stream fed as one
\* chunk; any two ways of cutting therefore give the same output.
C35_OutputIndependentOfChunking ==
    tr.stage = "closed" => tr.out = OneChunkOutput(tr.stream)

(***************************************************************************)
(* save_sample and cleanup_excess_samples in parallel threads of one       *)
(* process.  Every SampleStorage of a path shares the handle and the       *)
(* RLock of _get_db_and_lock, so a `with self._lock` section is one step;  *)
(* cleanup_excess_samples is four such sections, and lastOp holds the      *)
(* locals of the thread that runs it.                                      *)
(***************************************************************************)
\* SampleStorage(path) is constructed for the first time in the process.
FirstOpen ==
    /\ ~db.exists
    /\ OpenStorage

\* A request handler saves a sample: the one lock section of save_sample.
HandlerSaves ==
    /\ db.exists /\ _next_id(db) <= MaxId
    /\ \E text \in StoreTexts, label \in {0, 1}, category \in Categories :
           db' = save_sample(db, text, label, category)
    /\ UNCHANGED <<sqlite, bak, lastOp, smartVars, proxyVars, trainVars, streamVars, detectVars>>

\* cleanup_excess_samples, lines 450-453: get_sample_count and the early return.
CleanupCounts ==
    /\ db.exists /\ lastOp.op \in {"open", "cleaned"}
    /\ \E max_items \in MaxItemsChoices :
           lastOp' = IF _get_count(db) <= max_items
                     THEN [op |-> "cleaned", max_items |-> max_items]
                     ELSE [op |-> "cleanup", pc |-> "counts", max_items |-> max_items,
                           pass_count |-> 0, violation_count |-> 0]
    /\ UNCHANGED <<db, sqlite, bak, smartVars, proxyVars, trainVars, streamVars, detectVars>>

\* cleanup_excess_samples, line 455: get_label_counts.
CleanupReadsLabels ==
    /\ lastOp.op = "cleanup" /\ lastOp.pc = "counts"
    /\ lastOp' = [lastOp EXCEPT !.pc = "delete0",
                                !.pass_count = _get_label_count(db, 0),
                                !.violation_count = _get_label_count(db, 1)]
    /\ UNCHANGED <<db, sqlite, bak, smartVars, proxyVars, trainVars, streamVars, detectVars>>

\* cleanup_excess_samples, lines 458-473: _delete_random_samples for one label when
\* the count read before exceeds the target.
CleanupDeletes(label) ==
    LET target_per_label == lastOp.max_items \div 2
        counted == IF label = 0 THEN lastOp.pass_count ELSE lastOp.violation_count
    IN  /\ lastOp.op = "cleanup" /\ lastOp.pc = (IF label = 0 THEN "delete0" ELSE "delete1")
        /\ IF counted > target_per_label
           THEN \E td \in DeleteChoices(db, label, counted - target_per_label) :
                    db' = _delete_random_samples(db, label, td)
           ELSE UNCHANGED db
        /\ lastOp' = IF label = 0 THEN [lastOp EXCEPT !.pc = "delete1"]
                     ELSE [op |-> "cleaned", max_items |-> lastOp.max_items]
        /\ UNCHANGED <<sqlite, bak, smartVars, proxyVars, trainVars, streamVars, detectVars>>

ThreadsNext ==
    \/ FirstOpen
    \/ HandlerSaves
    \/ CleanupCounts
    \/ CleanupReadsLabels
    \/ CleanupDeletes(0)
    \/ CleanupDeletes(1)

SpecStoreThreads == StoreInit /\ [][ThreadsNext]_vars

\* The ids given out so far are those below meta:next_id; the freed ones hold no sample.
FreedIds(d) == {i \in 1..(_next_id(d) - 1) : i \notin DOMAIN d.samples}

\* C36: in every step of save_sample and cleanup_excess_samples, however interleaved,
\* a sample record that stays stored keeps its content, and a record that appears has
\* an id that is at least the id counter of before and below the one of after, the
\* counter never going down: ids are given out in strictly increasing order, never
\* twice, and never again after a deletion.
C36_IdsIncreaseAndRecordsKeep ==
    [][db.exists =>
          /\ _next_id(db') >= _next_id(db)
          /\ \A i \in DOMAIN db'.samples :
                 IF i \in DOMAIN db.samples THEN db'.samples[i] = db.samples[i]
                 ELSE /\ i >= _next_id(db) /\ i < _next_id(db')
                      /\ db'.samples[i].id = i]_vars

\* A handler saved a sample between two lock sections of a running cleanup, after an
\* id had been freed.
C36_Witness ==
    /\ lastOp.op = "cleanup" /\ lastOp.pc = "delete1"
    /\ _get_label_count(db, 1) > lastOp.violation_count
    /\ \E f \in FreedIds(db) : \E i \in DOMAIN db.samples : i > f

(***************************************************************************)
(* Claims about the text index and about cleanup, checked under SpecStore. *)
(***************************************************************************)
\* The stored samples whose text has the hash.
SamplesWithHash(d, text_hash) ==
    {i \in DOMAIN d.samples : d.samples[i].text_hash = text_hash}

\* The hashes of the texts a sample can have, and those the index names.
TextHashes == {_hash_text(t) : t \in StoreTexts \cup {""}} \cup DOMAIN db.latest

\* C37: for every text hash, text_latest:<hash> holds the greatest id among the stored
\* samples with that hash when there is one, and does not exist when there is none.
C37_LatestIndexIsGreatest ==
    db.exists =>
        \A h \in TextHashes :
            IF SamplesWithHash(db, h) # {}
            THEN h \in DOMAIN db.latest /\ db.latest[h] = SetMax(SamplesWithHash(db, h))
            ELSE h \notin DOMAIN db.latest

\* A cleanup has deleted the newest sample, and an older sample is still stored and
\* indexed.
C37_Witness ==
    /\ db.exists /\ lastOp.op = "cleanup"
    /\ _next_id(db) - 1 \in FreedIds(db)
    /\ \E h \in DOMAIN db.latest : db.latest[h] \in DOMAIN db.samples
    /\ \E h \in TextHashes : h \notin DOMAIN db.latest

\* The stored samples of a label class.
LabelClass(d, label) == {i \in DOMAIN d.samples : d.samples[i].label = label}

\* What a cleanup_excess_samples(max_items) call that found the store `before` and
\* left the store `after` did to a label class: the class is within the target, no
\* record was deleted from a class within the target, and from a class over the target
\* only as many as needed to reach it.
TrimmedToTarget(before, after, max_items, label) ==
    LET target_per_label == max_items \div 2 IN
    /\ Cardinality(LabelClass(after, label)) <= target_per_label
    /\ LabelClass(after, label) \subseteq LabelClass(before, label)
    /\ IF Cardinality(LabelClass(before, label)) > target_per_label
       THEN Cardinality(LabelClass(after, label)) = target_per_label
       ELSE LabelClass(after, label) = LabelClass(before, label)

\* The store a cleanup_excess_samples call finds: SampleStorage(path) as its caller
\* constructs it.
FoundByCleanup == SampleStorage(db, sqlite, bak).db

\* C38, amended: a cleanup_excess_samples(max_items) call that finds more than max_items
\* records leaves at most max_items \div 2 records in each label class, deleting only
\* from a class over that target and only as many as needed; a call that finds
\* max_items records or fewer deletes nothing.
C38_TrimmedWhenOverCap ==
    [][lastOp'.op = "cleanup" =>
          IF _get_count(FoundByCleanup) > lastOp'.max_items
          THEN \A label \in {0, 1} :
                   TrimmedToTarget(FoundByCleanup, db', lastOp'.max_items, label)
          ELSE db' = FoundByCleanup]_vars

\* Every id was given out by save_sample (no legacy file was migrated), more samples
\* were saved than cleanup_excess_samples(2) allows, and the cleanup has left one
\* record in each label class.
C38_Witness ==
    /\ db.exists /\ sqlite = NoFile /\ bak = NoFile
    /\ lastOp.op = "cleanup" /\ lastOp.max_items = 2
    /\ _next_id(db) - 1 > lastOp.max_items
    /\ \A label \in {0, 1} : Cardinality(LabelClass(db, label)) = 1

\* C38: when cleanup_excess_samples(max_items) returns, each label class holds at most
\* max_items \div 2 records, records were deleted only from a class over that target
\* and only as many as needed, and a class within the target is untouched.
C38_ClassesTrimmedToTarget ==
    [][lastOp'.op = "cleanup" =>
          \A label \in {0, 1} :
              TrimmedToTarget(FoundByCleanup, db', lastOp'.max_items, label)]_vars

(***************************************************************************)
(* Claim about the internal requests the decoders produce, checked under   *)
(* SpecBridge.                                                             *)
(***************************************************************************)
\* The data-model invariants of a message: at least one content block, and only
\* tool_result blocks under the role "tool".
MessageWellFormed(m) ==
    /\ Len(m.content) >= 1
    /\ m.role = "tool" => \A i \in DOMAIN m.content : m.content[i].type = "tool_result"

\* C39: every message of the internal request a decoder produces has at least one
\* content block, and a message with role "tool" holds only tool_result blocks.
C39_DecodedMessagesWellFormed ==
    det.stage = "transcoded" =>
        \A i \in DOMAIN det.internal.messages : MessageWellFormed(det.internal.messages[i])

(***************************************************************************)
(* Claim about moderation before forwarding, checked under SpecProxy.      *)
(***************************************************************************)
\* The request was handed to the upstream forwarder.
Forwarded == req.stage # "idle" /\ "upstream" \in Range(req.trace)

\* A stage ran on the text of the request before the forwarder was called.
RanOnRequestText(stage) ==
    /\ \E i, j \in DOMAIN req.trace :
           i < j /\ req.trace[i] = stage /\ req.trace[j] = "upstream"
    /\ req.moderated = req.text

\* C40: a request is handed to the upstream forwarder only after every moderation
\* stage its configuration enables has run on the text of the request (and passed, a
\* stage that does not pass ending the request), whether or not its dialect is
\* recognised.
C40_ForwardedOnlyAfterModeration ==
    Forwarded =>
        /\ req.configured.basic => RanOnRequestText("basic")
        /\ req.configured.smart => RanOnRequestText("smart")

====
